---------------------------- MODULE Spec2Model ----------------------------
(***************************************************************************)
(* A model of the rete-reasoner: the loader (directives, clause batches and *)
(* schema checks), the justification store, the conflict resolution        *)
(* strategies                                                              *)
(* and the cycle driver run(), with the interactive commands retract and   *)
(* run.  The pattern matcher (rete-next) is an external package: it is     *)
(* modelled by its contract (working memory, one production node per rule  *)
(* holding the tokens currently matched, canFire/willFire deltas,          *)
(* fuzzification of crisp values by the conditions on fuzzy variables).    *)
(* Numbers are held in fixed point: degrees of membership in               *)
(* ten-thousandths, numeric values in thousandths.                         *)
(***************************************************************************)
EXTENDS Integers, Sequences, FiniteSets, TLC

VARIABLES
    prog,               \* the name of the input file being executed
    strategy,           \* options.strategy: the characters of the argument, <<>> when absent
    strategyName,       \* selectedConflictResolutionStrategy.name
    pc,                 \* "start" | "running" | "idle" | "exited"
    caller,             \* who called run(): "main" | "retract" | "run"
    working_memory,     \* rete.working_memory: the list of WMEs (triples)
    mu,                 \* the degree of every FuzzyWME of working memory
    numeric,            \* parseFloat of the val field of every WME where it is a number
    fuzzySystem,        \* "" (undefined) | "min-max" | "multiplicative"
    fuzzyVariableKinds, \* the fuzzy kinds declared so far
    fuzzyVariables,     \* rete.fuzzyVariables
    schemaCheck,        \* the schema-check flag
    patternsForAttributes, \* the schema patterns registered, in the order pushed
    warnings,           \* console.warn calls made by the schema checks so far
    items,              \* per production node: the tokens currently matched
    fired,              \* per production node: the tokens committed by willFire
    gen,                \* per production node and binding: tokens created so far
    productions,        \* the global list of productions (rule names, production.rhs)
    hasAssert,          \* per production: productionSpec.rhsAssert is defined
    strata,             \* the list of strata: lists of production indexes
    stratumBeingRead,   \* the loader's cursor
    justifications,     \* the justification store: list of WMEJustification
    currentStratum,     \* the cursor of stratifiedManual
    cycle,              \* the global cycle counter
    threw,              \* the last command ended by an uncaught TypeError
    exitCode,           \* the exit status of the process, NoExit while it lives
    bodies,             \* executions of the loop body in the current call of run()
    ncmds,              \* interactive commands entered so far
    runs,               \* how each call of run() so far has ended
    gone,               \* the WMEs removed so far, with the cause (observation only)
    last,               \* what the last step did (observation only)
    build,              \* which of the two versions of the program runs
    events,             \* the calls the last step made, in order (observation only)
    defuzzified         \* runDefuzzification has been called since the last command
                        \* that calls run() was entered (observation only)

vars == <<prog, strategy, strategyName, pc, caller, working_memory, mu, numeric, fuzzySystem,
          fuzzyVariableKinds, fuzzyVariables, schemaCheck, patternsForAttributes,
          warnings, items, fired, gen, productions,
          hasAssert, strata, stratumBeingRead, justifications, currentStratum,
          cycle, threw, exitCode, bodies, ncmds, runs, gone, last, build, events,
          defuzzified>>

-----------------------------------------------------------------------------
(* Bounds of the model and constants of the program *)

MaxCmds == 2
\* the depth of the call stack at which a call throws a RangeError
MaxStack == 16
MAX_CYCLES == 100

\* exitCode while the process lives
NoExit == -1

\* The repository holds the program in two versions: the listing of index.ts
\* in README.md, and src/index.ts, which has no defuzzification and whose
\* multiplicative disjunction is not implemented.
Listing == "README.md"
IndexTs == "src/index.ts"
Builds == {Listing, IndexTs}

-----------------------------------------------------------------------------
(* Generic helpers on sequences *)

RECURSIVE SelectIdx(_, _, _)
\* the indexes i >= from of seq, ascending, as a sequence, where Keep[i] holds
SelectIdx(keep, from, n) ==
    IF from > n THEN <<>>
    ELSE (IF keep[from] THEN <<from>> ELSE <<>>) \o SelectIdx(keep, from + 1, n)

\* Array.prototype.filter with the predicate given as a boolean table
FilterBy(seq, keep) ==
    LET idx == SelectIdx(keep, 1, Len(seq))
    IN  [k \in 1..Len(idx) |-> seq[idx[k]]]

\* index of the first element for which the table holds, 0 when none (Array.find)
FirstIdx(keep, n) ==
    IF \E i \in 1..n : keep[i]
    THEN CHOOSE i \in 1..n : keep[i] /\ \A j \in 1..(i - 1) : ~keep[j]
    ELSE 0

RemoveAt(seq, i) ==
    [k \in 1..(Len(seq) - 1) |-> IF k < i THEN seq[k] ELSE seq[k + 1]]

Range(seq) == {seq[i] : i \in DOMAIN seq}

-----------------------------------------------------------------------------
(* Numbers.  A degree of membership is an integer number of ten-thousandths, *)
(* a numeric value an integer number of thousandths; the values a double     *)
(* can take outside the finite numbers are kept apart.                       *)

MuUnit == 10000
ValUnit == 1000
PosInf == 100000000
NegInf == -100000000
NaN == 200000000
Undefined == -200000000

\* the digits after the point of f thousandths (0 < f < 1000), as toString
\* writes them: no trailing zero
Frac(f) ==
    IF f % 100 = 0 THEN ToString(f \div 100)
    ELSE IF f % 10 = 0 THEN (IF f < 100 THEN "0" ELSE "") \o ToString(f \div 10)
    ELSE (IF f < 10 THEN "00" ELSE IF f < 100 THEN "0" ELSE "") \o ToString(f)

\* Number.prototype.toString of a numeric value
NumberToString(n) ==
    IF n = NaN THEN "NaN"
    ELSE IF n = PosInf THEN "Infinity"
    ELSE IF n = NegInf THEN "-Infinity"
    ELSE LET a == IF n < 0 THEN 0 - n ELSE n
         IN  (IF n < 0 THEN "-" ELSE "") \o ToString(a \div ValUnit)
             \o (IF a % ValUnit = 0 THEN "" ELSE "." \o Frac(a % ValUnit))

\* parseFloat of a field written in an input file or a command: the numerals
\* these hold, NaN for the other strings
ParseLiteral(str) ==
    CASE str = "0.3" -> 300
      [] str = "0.7" -> 700
      [] str = "0.9" -> 900
      [] str = "-0.3" -> 0 - 300
      [] OTHER -> NaN

\* 1 / (1 + exp(-z)) in ten-thousandths at z = -9, -8, ..., 9
LogisticKnots == <<1, 3, 9, 25, 67, 180, 474, 1192, 2689, 5000,
                   7311, 8808, 9526, 9820, 9933, 9975, 9991, 9997, 9999>>
MaxKnot == (Len(LogisticKnots) - 1) \div 2
Knot(k) == LogisticKnots[k + MaxKnot + 1]

\* 1 / (1 + Math.exp(-z)), z in thousandths: linear between the knots
Logistic(z) ==
    IF z <= (0 - MaxKnot) * ValUnit THEN Knot(0 - MaxKnot)
    ELSE IF z >= MaxKnot * ValUnit THEN Knot(MaxKnot)
    ELSE LET k == z \div ValUnit
             r == z - k * ValUnit
         IN  Knot(k) + ((Knot(k + 1) - Knot(k)) * r) \div ValUnit

\* -Math.log(1/y - 1) in thousandths, y a degree: the inverse of Logistic
Logit(y) ==
    IF y = NaN \/ y = Undefined \/ y < 0 \/ y > MuUnit THEN NaN
    ELSE IF y = 0 THEN NegInf
    ELSE IF y = MuUnit THEN PosInf
    ELSE IF y >= Knot(MaxKnot) THEN MaxKnot * ValUnit
    ELSE LET k == CHOOSE j \in (0 - MaxKnot)..(MaxKnot - 1) :
                      Knot(j) <= y /\ y < Knot(j + 1)
         IN  k * ValUnit + ((y - Knot(k)) * ValUnit) \div (Knot(k + 1) - Knot(k))

\* x / a for a finite x and a # 0, rounded towards minus infinity
Quot(x, a) == IF a > 0 THEN x \div a ELSE (0 - x) \div (0 - a)

\* sigmoid(a, c, val)
Sigmoid(a, c, val) ==
    IF val = NaN THEN NaN
    ELSE IF val = PosInf THEN (IF a > 0 THEN MuUnit ELSE 0)
    ELSE IF val = NegInf THEN (IF a > 0 THEN 0 ELSE MuUnit)
    ELSE Logistic(a * (val - c))

\* inverse_sigmoid(a, c, y) = c - Math.log(1/y - 1) / a
Inverse_sigmoid(a, c, y) ==
    LET l == Logit(y)
    IN  IF l = NaN \/ a = 0 THEN NaN
        ELSE IF l = PosInf THEN (IF a > 0 THEN PosInf ELSE NegInf)
        ELSE IF l = NegInf THEN (IF a > 0 THEN NegInf ELSE PosInf)
        ELSE c + Quot(l, a)

\* x + y on doubles
AddNum(x, y) ==
    IF x = NaN \/ y = NaN THEN NaN
    ELSE IF x \in {PosInf, NegInf}
         THEN (IF y \in {PosInf, NegInf} /\ y # x THEN NaN ELSE x)
    ELSE IF y \in {PosInf, NegInf} THEN y
    ELSE x + y

RECURSIVE SumFrom(_, _)
\* the sum of the numbers xs[i..], added in order
SumFrom(xs, i) == IF i > Len(xs) THEN 0 ELSE AddNum(xs[i], SumFrom(xs, i + 1))

\* sum / n for n > 0
DivNum(x, n) == IF x \in {NaN, PosInf, NegInf} THEN x ELSE Quot(x, n)

\* Math.abs(x - y) >= 1e-6
Differs(x, y) ==
    IF x = NaN \/ y = NaN THEN FALSE
    ELSE IF x \in {PosInf, NegInf} \/ y \in {PosInf, NegInf} THEN x # y
    ELSE x # y

\* Math.min(...ms) and Math.max(...ms)
MinOf(ms) ==
    IF ms = <<>> THEN PosInf
    ELSE CHOOSE x \in Range(ms) : \A y \in Range(ms) : x <= y
MaxOf(ms) ==
    IF ms = <<>> THEN NegInf
    ELSE CHOOSE x \in Range(ms) : \A y \in Range(ms) : x >= y

RECURSIVE ProductFrom(_, _)
\* ms.reduce((x, y) => x * y, 1) on degrees
ProductFrom(ms, i) ==
    IF i > Len(ms) THEN MuUnit ELSE (ms[i] * ProductFrom(ms, i + 1)) \div MuUnit

\* fuzzySystem.computeConjunction(...ms)
ComputeConjunction(sys, ms) ==
    IF sys = "min-max" THEN MinOf(ms) ELSE ProductFrom(ms, 1)

\* fuzzySystem.computeDisjunction(...ms), in the listing
ComputeDisjunction(sys, ms) ==
    IF sys = "min-max" THEN MaxOf(ms)
    ELSE MuUnit - ProductFrom([k \in DOMAIN ms |-> MuUnit - ms[k]], 1)

\* fuzzySystem.computeDisjunction(...ms), in src/index.ts: `return 0` for the
\* multiplicative system
ComputeDisjunctionIndexTs(sys, ms) ==
    IF sys = "min-max" THEN MaxOf(ms) ELSE 0

-----------------------------------------------------------------------------
(* The input files.  A WME is a triple <<id, attr, val>>.  A rule has one   *)
(* variable, bound by every condition's id field: constant-attribute,       *)
(* constant-value positive conditions and negative conditions -{(<s> a <_>)}*)

Ids == {"duck", "robbin", "dodo", "B1", "B3"}

\* the order in which the matcher enumerates the bindings of one production
IdRank(s) ==
    CASE s = "duck" -> 1 [] s = "robbin" -> 2 [] s = "dodo" -> 3
      [] s = "B1" -> 4 [] OTHER -> 5

Cond(a, v) == <<a, v>>

\* what parseRete yields for a production clause: lhs and rhsAssert
RuleDef(name) ==
    CASE name = "1. Default values prepare" ->
            [pos |-> <<Cond("is-a", "bird")>>, neg |-> {"fly"},
             hasAssert |-> TRUE, rhsAssert |-> <<Cond("fly-prepare", "can")>>]
      [] name = "2. Default values commit" ->
            [pos |-> <<Cond("fly-prepare", "can")>>, neg |-> {},
             hasAssert |-> TRUE, rhsAssert |-> <<Cond("fly", "can")>>]
      [] name = "3. Hunting possibility by shooting" ->
            [pos |-> <<Cond("fly", "can")>>, neg |-> {},
             hasAssert |-> TRUE, rhsAssert |-> <<Cond("hunting-possible-by", "shooting")>>]
      [] name = "3. Hunting possibility by shooting or chasing" ->
            [pos |-> <<Cond("fly", "cannot")>>, neg |-> {},
             hasAssert |-> TRUE,
             rhsAssert |-> <<Cond("hunting-possible-by", "shooting"),
                             Cond("hunting-possible-by", "chasing")>>]
      [] name = "excellent food and service" ->
            [pos |-> <<Cond("food", "excellent"), Cond("service", "excellent")>>,
             neg |-> {}, hasAssert |-> TRUE, rhsAssert |-> <<Cond("tip", "big")>>]
      [] name = "poor food and service" ->
            [pos |-> <<Cond("food", "poor"), Cond("service", "poor")>>,
             neg |-> {}, hasAssert |-> TRUE, rhsAssert |-> <<Cond("tip", "small")>>]
      [] name = "excellent food but poor service" ->
            [pos |-> <<Cond("food", "excellent"), Cond("service", "poor")>>,
             neg |-> {}, hasAssert |-> TRUE, rhsAssert |-> <<Cond("tip", "small")>>]
      [] name = "Default values" ->
            [pos |-> <<Cond("is-a", "bird")>>, neg |-> {"fly"},
             hasAssert |-> TRUE, rhsAssert |-> <<Cond("fly", "can")>>]
      [] name = "a bird at table B1" ->   \* ((<s> is-a bird) -> "..." (B1 tip big))
            [pos |-> <<Cond("is-a", "bird")>>, neg |-> {},
             hasAssert |-> TRUE, rhsAssert |-> <<Cond("tip", "big")>>, id |-> "B1"]
      [] name = "poor food at table B3" ->   \* ((<s> food poor) -> "..." (B3 tip small))
            [pos |-> <<Cond("food", "poor")>>, neg |-> {},
             hasAssert |-> TRUE, rhsAssert |-> <<Cond("tip", "small")>>, id |-> "B3"]
      [] name = "4. Who flies has prepared" ->
            [pos |-> <<Cond("fly", "can")>>, neg |-> {},
             hasAssert |-> TRUE, rhsAssert |-> <<Cond("fly-prepare", "can")>>]
      [] OTHER ->   \* "Birds noted": a production with a name and no assert
            [pos |-> <<Cond("is-a", "bird")>>, neg |-> {},
             hasAssert |-> FALSE, rhsAssert |-> <<>>]

\* the id field of the WMEs the RHS of the rule yields for the binding s: the
\* constant the RHS writes, or the value of its variable
RhsId(name, s) ==
    IF "id" \in DOMAIN RuleDef(name) THEN RuleDef(name).id ELSE s

\* a line of the input: a directive with its words, or a clause
Directive(d, arg) == [t |-> "dir", d |-> d, arg |-> arg, wmes |-> <<>>, rhs |-> ""]
AssertClause(ws) == [t |-> "assert", d |-> "", arg |-> <<>>, wmes |-> ws, rhs |-> ""]
ProductionClause(name) ==
    [t |-> "prod", d |-> "", arg |-> <<>>, wmes |-> <<>>, rhs |-> name]

\* a clause that parseRete cannot parse
Unparsable == [t |-> "unparsable", d |-> "", arg |-> <<>>, wmes |-> <<>>, rhs |-> ""]

\* what follows a directive keyword in the first word of the directive lines
\* of the inputs
Tails == {"", "X", "check"}

\* String.prototype.startsWith, for the first word of a directive line
StartsWith(str, prefix) == \E t \in Tails : str = prefix \o t

FuzzyValDefinition(name, a, c) == [name |-> name, a |-> a, c |-> c]

\* the value definitions a `#fuzzy kind` line gives, a and c parsed
KindDefinitions(kind) ==
    CASE kind = "excellent-poor" ->   \* excellent:sigmoid 10 0.7, poor:sigmoid -10 0.3
            <<FuzzyValDefinition("excellent", 10, 700),
              FuzzyValDefinition("poor", -10, 300)>>
      [] OTHER ->                      \* small-big  big:sigmoid 4 0.7, small:sigmoid -4 0.3
            <<FuzzyValDefinition("big", 4, 700),
              FuzzyValDefinition("small", -4, 300)>>

\* the value definitions as written on a `#fuzzy kind` line: the name before
\* the colon, whether a definition follows it, and its three words (a and c as
\* parseFloat reads them)
WrittenDefinitions(kind) ==
    CASE kind = "ktriangle" ->        \* v:triangle 1 2
            <<[name |-> "v", def |-> TRUE, fnc |-> "triangle", a |-> 1, c |-> 2000]>>
      [] kind = "kbare" ->            \* v
            <<[name |-> "v", def |-> FALSE, fnc |-> "", a |-> NaN, c |-> NaN]>>
      [] OTHER ->
            [i \in DOMAIN KindDefinitions(kind) |->
                [name |-> KindDefinitions(kind)[i].name, def |-> TRUE, fnc |-> "sigmoid",
                 a |-> KindDefinitions(kind)[i].a, c |-> KindDefinitions(kind)[i].c]]

\* the directives and the rules of the fuzzy example, for the system sys
FuzzyLines(sys) ==
    <<Directive("#fuzzy", <<"kind", "excellent-poor">>),
      Directive("#fuzzy", <<"kind", "small-big">>),
      Directive("#fuzzy", <<"var", "food", "excellent-poor">>),
      Directive("#fuzzy", <<"var", "service", "excellent-poor">>),
      Directive("#fuzzy", <<"var", "tip", "small-big">>),
      Directive("#fuzzy", <<"system", sys>>),
      ProductionClause("excellent food and service"),
      ProductionClause("poor food and service"),
      ProductionClause("excellent food but poor service"),
      AssertClause(<<<<"B1", "food", "0.3">>, <<"B1", "service", "0.9">>>>),
      AssertClause(<<<<"B3", "food", "0.7">>, <<"B3", "service", "0.3">>>>)>>

Birds == <<<<"duck", "is-a", "bird">>, <<"robbin", "is-a", "bird">>,
           <<"dodo", "is-a", "bird">>>>
Flight == <<<<"duck", "fly", "can">>, <<"dodo", "fly", "cannot">>>>

\* the lines of each input file, in source order
Lines(p) ==
    CASE p = "scenario1" ->    \* README "Stratified (Manual) Strategy", two rules
            <<AssertClause(Birds), AssertClause(Flight),
              ProductionClause("1. Default values prepare"),
              Directive("#stratum", <<>>),
              ProductionClause("2. Default values commit")>>
      [] p = "scenario2" ->    \* README test2-fail.rete
            <<AssertClause(Birds), AssertClause(Flight),
              ProductionClause("Default values")>>
      [] p = "test2" ->        \* src/test2.rete
            <<AssertClause(Birds), AssertClause(Flight),
              ProductionClause("1. Default values prepare"),
              Directive("#stratum", <<>>),
              ProductionClause("2. Default values commit"),
              Directive("#stratum", <<>>),
              ProductionClause("3. Hunting possibility by shooting"),
              ProductionClause("3. Hunting possibility by shooting or chasing")>>
      [] p = "fuzzy-minmax" -> FuzzyLines("min-max")
      [] p = "fuzzy-mult" -> FuzzyLines("multiplicative")
      [] p = "fuzzy-foo" -> FuzzyLines("foo")   \* a fuzzy system that is not recognised
      [] p \in {"shared-minmax", "shared-mult"} ->
            \* a FuzzyWME that a rule without fuzzy condition asserts for two tokens
            FuzzyLines(IF p = "shared-minmax" THEN "min-max" ELSE "multiplicative")
            \o <<AssertClause(<<<<"duck", "is-a", "bird">>, <<"robbin", "is-a", "bird">>>>),
                 ProductionClause("a bird at table B1")>>
      [] p = "shared-fuzzy" -> \* a FuzzyWME that a rule asserts for two tokens of
                               \* different degrees
            SubSeq(FuzzyLines("min-max"), 1, 6)
            \o <<ProductionClause("poor food at table B3"),
                 AssertClause(<<<<"B1", "food", "0.3">>, <<"B3", "food", "0.7">>>>)>>
      [] p = "cycle" ->        \* two rules that derive each other's condition
            <<AssertClause(<<<<"robbin", "fly-prepare", "can">>>>),
              ProductionClause("2. Default values commit"),
              ProductionClause("4. Who flies has prepared")>>
      [] p = "fuzzy-crisp" ->  \* crisp values of the variable that the rules derive:
                               \* for B3 the value the first defuzzification computes
            FuzzyLines("min-max") \o <<AssertClause(<<<<"B1", "tip", "0.9">>,
                                                       <<"B3", "tip", "-0.3">>>>)>>
      [] p = "fuzzy-crisp2" -> \* two crisp values of one id of the variable that
                               \* the rules derive
            FuzzyLines("min-max") \o <<AssertClause(<<<<"B1", "tip", "0.9">>,
                                                       <<"B1", "tip", "0.7">>>>)>>
      [] p = "samename" ->     \* two productions of one name, in two strata
            <<AssertClause(<<<<"duck", "fly-prepare", "can">>,
                             <<"robbin", "is-a", "bird">>>>),
              ProductionClause("2. Default values commit"),
              Directive("#stratum", <<>>),
              Directive("#stratum", <<>>),
              ProductionClause("1. Default values prepare"),
              ProductionClause("2. Default values commit")>>
      [] p = "parse-error" ->  \* the last batch has a clause that does not parse
            <<AssertClause(Birds),
              Directive("#stratum", <<>>),
              ProductionClause("Default values"),
              Unparsable>>
      [] p = "malformed" ->    \* directives that are malformed or not recognised
            <<AssertClause(Birds),
              Directive("#schemacheck", <<"maybe">>),
              Directive("#schema", <<"x", "_", "y">>),
              Directive("#fuzzy", <<"system", "foo">>),
              Directive("#fuzzy", <<"var", "v", "undeclaredkind">>),
              Directive("#fuzzy", <<"kind", "ktriangle">>),
              Directive("#stratumX", <<>>),
              ProductionClause("Default values"),
              Directive("#fuzzy", <<"kind", "kbare">>),
              AssertClause(Flight)>>
      [] p = "schema" ->       \* a schema pattern, and a fact that matches none
            <<Directive("#schemacheck", <<"on">>),
              Directive("#schema", <<"_", "fly", "can">>),
              AssertClause(<<<<"duck", "fly", "canitreally">>>>),
              AssertClause(<<<<"robbin", "fly-prepare", "can">>>>),
              ProductionClause("2. Default values commit")>>
      [] p = "monotone" ->     \* rules without negation: a chain, and a shared RHS
            <<AssertClause(<<<<"robbin", "fly-prepare", "can">>,
                             <<"duck", "fly", "can">>, <<"duck", "fly", "cannot">>,
                             <<"dodo", "fly", "cannot">>>>),
              ProductionClause("2. Default values commit"),
              ProductionClause("3. Hunting possibility by shooting"),
              ProductionClause("3. Hunting possibility by shooting or chasing")>>
      [] p = "axiom" ->        \* a derived fact that is also asserted
            <<AssertClause(<<<<"robbin", "is-a", "bird">>,
                             <<"robbin", "fly-prepare", "can">>>>),
              ProductionClause("1. Default values prepare"),
              ProductionClause("2. Default values commit"),
              ProductionClause("Birds noted")>>
      [] OTHER ->              \* "twice": the same fact asserted twice
            <<AssertClause(<<<<"duck", "is-a", "bird">>, <<"duck", "is-a", "bird">>>>),
              AssertClause(<<<<"duck", "fly", "can">>>>),
              Directive("#stratum", <<>>),
              AssertClause(<<<<"duck", "fly", "can">>>>),
              ProductionClause("3. Hunting possibility by shooting"),
              ProductionClause("3. Hunting possibility by shooting or chasing")>>

Programs == {"scenario1", "scenario2", "test2", "axiom", "twice",
             "fuzzy-minmax", "fuzzy-mult", "fuzzy-foo", "fuzzy-crisp", "fuzzy-crisp2",
             "monotone",
             "shared-minmax", "shared-mult", "shared-fuzzy", "cycle",
             "samename", "parse-error", "malformed",
             "schema"}

\* the versions of the program each input file is run with: both for the
\* inputs on which they differ, those whose rules assert fuzzy values
Versions(p) ==
    IF p \in {"fuzzy-minmax", "fuzzy-mult"} THEN Builds ELSE {Listing}

\* the strategy arguments of the command line, as the lists of their
\* characters: none, and -s F, -s STRAT, -s manual
StrategyArguments ==
    {<<>>, <<"F">>, <<"S", "T", "R", "A", "T">>, <<"m", "a", "n", "u", "a", "l">>}

\* the strategy arguments given with the input file p: all of them with
\* scenario 1, none and -s STRAT with the others
ArgumentsFor(p) ==
    IF p = "scenario1" THEN StrategyArguments
    ELSE {<<>>, <<"S", "T", "R", "A", "T">>}

\* the characters of the names of the strategies
NameChars(name) ==
    IF name = "firstMatch"
    THEN <<"f", "i", "r", "s", "t", "M", "a", "t", "c", "h">>
    ELSE <<"s", "t", "r", "a", "t", "i", "f", "i", "e", "d", "M", "a", "n", "u", "a", "l">>

\* String.prototype.toLowerCase, on the letters of the names and arguments
ToLowerCase(chars) ==
    [i \in DOMAIN chars |->
        CASE chars[i] = "A" -> "a" [] chars[i] = "F" -> "f" [] chars[i] = "M" -> "m"
          [] chars[i] = "R" -> "r" [] chars[i] = "S" -> "s" [] chars[i] = "T" -> "t"
          [] OTHER -> chars[i]]

\* String.prototype.startsWith, on lists of characters
CharsStartWith(chars, prefix) ==
    Len(prefix) <= Len(chars) /\ \A i \in DOMAIN prefix : chars[i] = prefix[i]

\* the names of the registry conflictResolutionStrategies, in order
ConflictResolutionStrategies == <<"firstMatch", "stratifiedManual">>

\* SelectStrategy comparing the names as written, without toLowerCase
SelectStrategyCaseSensitive(arg) ==
    LET reg == ConflictResolutionStrategies
        found == FirstIdx([i \in DOMAIN reg |-> CharsStartWith(NameChars(reg[i]), arg)],
                          Len(reg))
    IN  IF arg = <<>> \/ found = 0 THEN reg[1] ELSE reg[found]

\* the name of selectedConflictResolutionStrategy for options.strategy = arg
SelectStrategy(arg) ==
    LET reg == ConflictResolutionStrategies
        found == FirstIdx([i \in DOMAIN reg |->
                              CharsStartWith(ToLowerCase(NameChars(reg[i])),
                                             ToLowerCase(arg))], Len(reg))
    IN  IF arg = <<>> \/ found = 0 THEN reg[1] ELSE reg[found]

\* the facts an interactive `run (! ...)` may assert
RunFacts == {<<"duck", "fly", "cannot">>, <<"robbin", "fly-prepare", "can">>,
             <<"duck", "is-a", "bird">>, <<"B1", "food", "0.3">>}

\* the inputs of an interactive `run`: one of these facts, or two facts in one
\* clause, the first of an attribute that names a property of Object.prototype
RunInputs ==
    {<<AssertClause(<<f>>)>> : f \in RunFacts}
    \cup {<<AssertClause(<<<<"duck", "constructor", "x">>,
                           <<"duck", "fly", "cannot">>>>)>>}

\* the WMEs an interactive `explain` may name, for the input file p: explain
\* is given to the input files with a cycle of justifications, a
\* defuzzification and a fuzzification
ExplainTargets(p) ==
    IF p = "cycle" THEN {<<"robbin", "fly-prepare", "can">>, <<"robbin", "fly", "can">>,
                         <<"duck", "fly", "can">>}
    ELSE IF p = "fuzzy-minmax" THEN {<<"B1", "tip", "0.75">>}
    ELSE {}

\* the WMEs an interactive `retract` may name
RetractTargets == {<<"duck", "is-a", "bird">>, <<"robbin", "is-a", "bird">>,
                   <<"duck", "fly", "can">>, <<"robbin", "fly", "can">>,
                   <<"robbin", "fly-prepare", "can">>, <<"dodo", "fly", "cannot">>,
                   <<"B1", "food", "0.3">>, <<"B1", "tip", "0.75">>,
                   <<"B1", "tip", "big">>}

-----------------------------------------------------------------------------
(* The matcher (package rete-next), by its contract.  The operators below   *)
(* take and return the record st of the whole program state, so that a      *)
(* handler is the composition of the calls it makes, in program order.      *)

\* the step has made the call fn
Called(st, fn) == [st EXCEPT !.events = Append(@, fn)]

\* the places of the call fn in the calls ev
Calls(ev, fn) == {k \in DOMAIN ev : ev[k] = fn}

\* rete.getFuzzyVariable(attr): its index in rete.fuzzyVariables, 0 when none
GetFuzzyVariable(st, attr) ==
    FirstIdx([i \in DOMAIN st.fuzzyVariables |-> st.fuzzyVariables[i].name = attr],
             Len(st.fuzzyVariables))

\* DeclaredFuzzyVariable.getFuzzyValue: the index of the definition, 0 when none
GetFuzzyValue(v, fuzzyValue) ==
    LET defs == v.fuzzyVariableKind.definitions
    IN  FirstIdx([i \in DOMAIN defs |-> defs[i].name = fuzzyValue], Len(defs))

IsFuzzyValue(v, fuzzyValue) == GetFuzzyValue(v, fuzzyValue) # 0

ComputeMembershipValueForFuzzyValue(v, fuzzyValue, val) ==
    LET i == GetFuzzyValue(v, fuzzyValue)
        d == v.fuzzyVariableKind.definitions[i]
    IN  IF i # 0 THEN Sigmoid(d.a, d.c, val) ELSE 0

ComputeValueForFuzzyMembershipValue(v, fuzzyValue, m) ==
    LET i == GetFuzzyValue(v, fuzzyValue)
        d == v.fuzzyVariableKind.definitions[i]
    IN  IF i # 0 THEN Inverse_sigmoid(d.a, d.c, m) ELSE 0

\* w is in rete.working_memory
InWM(st, w) == \E i \in DOMAIN st.wm : st.wm[i] = w

\* w is a FuzzyWME of working memory, and its degree
IsFuzzyWME(st, w) == \E e \in st.mu : e.wme = w
MuOf(st, w) == (CHOOSE e \in st.mu : e.wme = w).mu

\* parseFloat(w.fields[2]) for a WME of working memory: the number its val
\* field was written from or denotes in the input, NaN when it is no number
ParseFloat(st, w) ==
    IF \E e \in st.numeric : e.wme = w
    THEN (CHOOSE e \in st.numeric : e.wme = w).val
    ELSE NaN

\* the WMEs (id attr n) of working memory with n numeric, in order
CrispWMEs(st, id, attr) ==
    FilterBy(st.wm, [i \in DOMAIN st.wm |->
                        /\ st.wm[i][1] = id
                        /\ st.wm[i][2] = attr
                        /\ ParseFloat(st, st.wm[i]) # NaN])

\* the condition tests a fuzzy value of a registered fuzzy variable
IsFuzzyCondition(st, c) ==
    LET i == GetFuzzyVariable(st, c[1])
    IN  i # 0 /\ IsFuzzyValue(st.fuzzyVariables[i], c[2])

\* A condition on a fuzzy value is matched by the fuzzification of the crisp
\* WME of the variable; any other condition by the WME with these fields.  (In
\* the input files modelled no rule tests a fuzzy variable that a rule asserts,
\* and an id has at most one crisp value of a variable that a rule tests.)
CondMatches(st, s, c) ==
    IF IsFuzzyCondition(st, c) THEN CrispWMEs(st, s, c[1]) # <<>>
    ELSE InWM(st, <<s, c[1], c[2]>>)

\* the degree of the token member matched by condition c: that of the FuzzyWME
\* made by fuzzification, Undefined for a member that is not a FuzzyWME
MemberMu(st, s, c) ==
    IF IsFuzzyCondition(st, c)
    THEN ComputeMembershipValueForFuzzyValue(
             st.fuzzyVariables[GetFuzzyVariable(st, c[1])], c[2],
             ParseFloat(st, CrispWMEs(st, s, c[1])[1]))
    ELSE Undefined

\* a token: its production node, its binding, its identity among the tokens of
\* this binding, and the degrees of its members
Token(p, s, g, fz) == [p |-> p, s |-> s, gen |-> g, fz |-> fz]
NoToken == Token(0, "", 0, <<>>)

\* the binding s satisfies the conditions of the rule in working memory
Matches(st, name, s) ==
    LET r == RuleDef(name)
    IN  /\ \A i \in DOMAIN r.pos : CondMatches(st, s, r.pos[i])
        /\ \A a \in r.neg : ~\E i \in DOMAIN st.wm : st.wm[i][1] = s /\ st.wm[i][2] = a

\* token.toArray(): the WMEs matched by the positive conditions (for a
\* condition on a fuzzy value, the FuzzyWME made by fuzzification)
TokenWMEs(name, t) ==
    LET r == RuleDef(name)
    IN  [i \in DOMAIN r.pos |-> <<t.s, r.pos[i][1], r.pos[i][2]>>]

\* The network after a change of working memory: a token whose binding still
\* matches is kept (same identity), a token whose binding no longer matches is
\* deleted, and a binding that newly matches gets a new token (new identity).
Rematch(st) ==
    LET name(p) == st.productions[p]
        keep(p) == {t \in st.items[p] : Matches(st, name(p), t.s)}
        new(p) == {s \in Ids : /\ Matches(st, name(p), s)
                               /\ ~\E t \in st.items[p] : t.s = s}
        fz(p, s) == [i \in DOMAIN RuleDef(name(p)).pos |->
                        MemberMu(st, s, RuleDef(name(p)).pos[i])]
    IN  [st EXCEPT
            !.items = [p \in DOMAIN st.items |->
                          keep(p) \cup {Token(p, s, st.gen[p][s] + 1, fz(p, s)) :
                                           s \in new(p)}],
            !.gen = [p \in DOMAIN st.gen |->
                          [s \in Ids |-> IF s \in new(p) THEN st.gen[p][s] + 1
                                         ELSE st.gen[p][s]]]]

\* rete.removeWME(w)
RemoveWME(st, w) ==
    Rematch([st EXCEPT !.wm = FilterBy(@, [i \in DOMAIN @ |-> @[i] # w]),
                       !.mu = {e \in @ : e.wme # w},
                       !.numeric = {e \in @ : e.wme # w}])

\* a new WME in working memory, n being the number its val field denotes: a
\* FuzzyWME of degree m when a degree is given and its attribute is a fuzzy
\* variable
AddWME(st, w, m, n) ==
    Rematch([st EXCEPT !.wm = Append(@, w),
                       !.mu = IF m # Undefined /\ GetFuzzyVariable(st, w[2]) # 0
                              THEN @ \cup {[wme |-> w, mu |-> m]} ELSE @,
                       !.numeric = IF n # NaN THEN @ \cup {[wme |-> w, val |-> n]}
                                   ELSE @])

RECURSIVE AddWMEsAux(_, _, _, _)
AddWMEsAux(acc, ws, m, i) ==
    IF i > Len(ws) THEN acc
    ELSE IF InWM(acc.st, ws[i])
         THEN AddWMEsAux([acc EXCEPT !.existing = Append(@, ws[i])], ws, m, i + 1)
         ELSE AddWMEsAux([acc EXCEPT !.st = AddWME(acc.st, ws[i], m,
                                                   ParseLiteral(ws[i][3])),
                                     !.added = Append(@, ws[i])], ws, m, i + 1)

\* rete.addWMEsFromConditions(conds, bindings, mu): [wmesAdded, wmesExisting],
\* ws being the conditions instantiated with the bindings, in order
AddWMEsFromConditions(st, ws, m) ==
    AddWMEsAux([st |-> st, added |-> <<>>, existing |-> <<>>], ws, m, 1)

\* rete.add(id, attr, val), val written from the number n: the new WME, or
\* null when it is in working memory
Add(st, w, n) ==
    IF InWM(st, w) THEN [st |-> st, added |-> FALSE]
    ELSE [st |-> AddWME(st, w, Undefined, n), added |-> TRUE]

\* rete.addFuzzyVariable(v)
AddFuzzyVariable(st, v) == [st EXCEPT !.fuzzyVariables = Append(@, v)]

\* rete.addProduction(lhs, rhs): a new production node, matched against the
\* current working memory
AddProduction(st, name) ==
    Rematch([st EXCEPT !.productions = Append(@, name),
                       !.items = Append(@, {}),
                       !.fired = Append(@, {}),
                       !.gen = Append(@, [s \in Ids |-> 0])])

\* production.canFire(): [tokensToAdd, tokensToRemove] since the last willFire
TokensToAdd(st, p) == st.items[p] \ st.fired[p]
TokensToRemove(st, p) == st.fired[p] \ st.items[p]

\* production.willFire(): commits the delta canFire reports
WillFire(st, p) == Called([st EXCEPT !.fired[p] = st.items[p]], "willFire")

TokLE(x, y) == IdRank(x.s) < IdRank(y.s) \/ (x.s = y.s /\ x.gen <= y.gen)

RECURSIVE TokSeq(_)
\* a set of tokens as the array the matcher returns
TokSeq(S) ==
    IF S = {} THEN <<>>
    ELSE LET t == CHOOSE x \in S : \A y \in S : TokLE(x, y)
         IN  <<t>> \o TokSeq(S \ {t})

-----------------------------------------------------------------------------
(* The justification store *)

Axiomatic == [kind |-> "axiomatic", prod |-> "", token |-> NoToken, wmes |-> <<>>]
DefuzzificationJustification(wmes) ==
    [kind |-> "defuzz", prod |-> "", token |-> NoToken, wmes |-> wmes]
ProductionJustification(name, t) ==
    [kind |-> "prod", prod |-> name, token |-> t, wmes |-> <<>>]

WMEJustification(w, js) == [wme |-> w, justifications |-> js]

\* justifications.find(j => j.wme === w): its index, 0 when there is none
FindRecord(J, w) == FirstIdx([i \in DOMAIN J |-> J[i].wme = w], Len(J))

HasRecord(J, w) == \E i \in DOMAIN J : J[i].wme = w

\* the justifications held for w (of its first record), <<>> when none
JustificationsOf(J, w) ==
    IF HasRecord(J, w) THEN J[FindRecord(J, w)].justifications ELSE <<>>

-----------------------------------------------------------------------------
(* Loading: directives and clause batches *)

\* an uncaught TypeError, and process.exit(): what follows in the handler is
\* not executed
Throw(st) == [st EXCEPT !.halt = "throw"]
Exit(st) == [st EXCEPT !.halt = "exit"]
Halted(st) == st.halt # ""

Warn(st) == [st EXCEPT !.warnings = @ + 1]

\* the properties that the object patternsForAttributes inherits from
\* Object.prototype: patternsForAttributes[attr] is a function for these
PrototypeKeys == {"constructor", "toString", "valueOf", "hasOwnProperty"}

\* the own property patternsForAttributes[attr]: the patterns pushed for attr
OwnPatterns(st, attr) ==
    FilterBy(st.patternsForAttributes,
             [i \in DOMAIN st.patternsForAttributes |->
                 st.patternsForAttributes[i].attr = attr])

\* tryMatchPatternInWME(wme, patternsForAttribute)
TryMatchPatternInWME(w, patterns) ==
    \E i \in DOMAIN patterns :
        /\ patterns[i].id # "" => patterns[i].id = w[1]
        /\ patterns[i].val # "" => patterns[i].val = w[3]

\* checkWMEAgainstSchema(wme): `for (... of patternsForAttribute)` throws a
\* TypeError when patternsForAttribute is an inherited function
CheckWMEAgainstSchema(st, w) ==
    IF GetFuzzyVariable(st, w[2]) # 0 THEN st
    ELSE IF w[2] \in PrototypeKeys THEN Throw(st)
    ELSE IF OwnPatterns(st, w[2]) = <<>> THEN Warn(st)
    ELSE IF TryMatchPatternInWME(w, OwnPatterns(st, w[2])) THEN st
    ELSE Warn(st)

\* tryMatchPatternInCondition(cond, patternsForAttribute), the id field of the
\* condition being a variable; val is "" for a variable or blank value field
TryMatchPatternInCondition(val, patterns) ==
    \E i \in DOMAIN patterns :
        (patterns[i].val # "" /\ val # "") => patterns[i].val = val

RECURSIVE CheckConditionsAgainstSchema(_, _, _)
\* checkConditionsAgainstSchema(lhs), from condition i on: conds are the
\* <<attr, val>> of the conditions in order
CheckConditionsAgainstSchema(st, conds, i) ==
    IF i > Len(conds) \/ Halted(st) THEN st
    ELSE IF GetFuzzyVariable(st, conds[i][1]) # 0 THEN st
    ELSE IF conds[i][1] \in PrototypeKeys THEN Throw(st)
    ELSE CheckConditionsAgainstSchema(
             IF OwnPatterns(st, conds[i][1]) = <<>> THEN Warn(st)
             ELSE IF TryMatchPatternInCondition(conds[i][2], OwnPatterns(st, conds[i][1]))
                  THEN st
             ELSE Warn(st),
             conds, i + 1)

RECURSIVE SetToSeq(_)
SetToSeq(S) ==
    IF S = {} THEN <<>>
    ELSE LET x == CHOOSE y \in S : TRUE IN <<x>> \o SetToSeq(S \ {x})

\* the conditions of the lhs of a rule as the schema check walks them: the
\* positive conditions, then those inside the negative conditions
LhsConditions(name) ==
    RuleDef(name).pos \o [k \in DOMAIN SetToSeq(RuleDef(name).neg) |->
                            Cond(SetToSeq(RuleDef(name).neg)[k], "")]

RECURSIVE PushAxiomatic(_, _, _)
\* for (const wme of wmes[0]) { justifications.push({wme, [{axiomatic: true}]});
\*                              schemaCheck && checkWMEAgainstSchema(wme); }
PushAxiomatic(st, added, i) ==
    IF i > Len(added) \/ Halted(st) THEN st
    ELSE LET Checked(st1) == IF st1.schemaCheck THEN CheckWMEAgainstSchema(st1, added[i])
                             ELSE st1
         IN  PushAxiomatic(
                 Checked([st EXCEPT !.justifications =
                              Append(@, WMEJustification(added[i], <<Axiomatic>>))]),
                 added, i + 1)

\* parseAndExecute, the branch of an assert clause
ExecuteAssert(st, ws) ==
    LET Record(res) == PushAxiomatic(res.st, res.added, 1)
    IN  Record(AddWMEsFromConditions(st, ws, Undefined))

\* parseAndExecute, the branch of a production clause
ExecuteProduction(st, name) ==
    LET p == Len(st.productions) + 1
        Checked(st1) ==
            IF ~st1.schemaCheck THEN st1
            ELSE IF RuleDef(name).hasAssert
            THEN CheckConditionsAgainstSchema(
                     CheckConditionsAgainstSchema(st1, LhsConditions(name), 1),
                     RuleDef(name).rhsAssert, 1)
            ELSE CheckConditionsAgainstSchema(st1, LhsConditions(name), 1)
    IN  Checked([AddProduction(st, name) EXCEPT
                    !.hasAssert = Append(@, RuleDef(name).hasAssert),
                    !.strata[st.stratumBeingRead + 1] = Append(@, p)])

RECURSIVE ParseAndExecuteFrom(_, _, _)
ParseAndExecuteFrom(st, clauses, i) ==
    IF i > Len(clauses) \/ Halted(st) THEN st
    ELSE LET c == clauses[i]
             st1 == IF c.t = "assert" THEN ExecuteAssert(st, c.wmes)
                    ELSE ExecuteProduction(st, c.rhs)
         IN  ParseAndExecuteFrom(st1, clauses, i + 1)

\* parseAndExecute(input): process.exit() when the batch does not parse, else
\* its clauses in order
ParseAndExecute(st, clauses) ==
    IF \E i \in DOMAIN clauses : clauses[i].t = "unparsable" THEN Exit(st)
    ELSE ParseAndExecuteFrom(st, clauses, 1)

RECURSIVE ParseDefinitions(_, _, _)
\* the loop over valueDefinitions in fuzzyDirectiveHandling: the definitions
\* parsed, "return" when the loop returns, "throw" when def is undefined
ParseDefinitions(written, i, definitions) ==
    IF i > Len(written) THEN [how |-> "done", definitions |-> definitions]
    ELSE IF ~written[i].def THEN [how |-> "throw", definitions |-> definitions]
    ELSE IF written[i].fnc # "sigmoid" THEN [how |-> "return", definitions |-> definitions]
    ELSE IF written[i].a = NaN \/ written[i].c = NaN
         THEN [how |-> "return", definitions |-> definitions]
    ELSE ParseDefinitions(written, i + 1,
             Append(definitions,
                    FuzzyValDefinition(written[i].name, written[i].a, written[i].c)))

\* fuzzyDirectiveHandling(prompt), arg being the words of the prompt
FuzzyDirectiveHandling(st, arg) ==
    IF arg = <<>> THEN st
    ELSE IF arg[1] = "system"
    THEN (IF Len(arg) >= 2 /\ arg[2] \in {"min-max", "multiplicative"}
          THEN [st EXCEPT !.fuzzySystem = arg[2]] ELSE st)
    ELSE IF arg[1] = "kind"
    THEN LET Declared(parsed) ==
                 IF parsed.how = "throw" THEN Throw(st)
                 ELSE IF parsed.how = "return" THEN st
                 ELSE [st EXCEPT !.fuzzyVariableKinds =
                          Append(@, [name |-> arg[2], definitions |-> parsed.definitions])]
         IN  IF Len(arg) < 2 THEN st
             ELSE Declared(ParseDefinitions(WrittenDefinitions(arg[2]), 1, <<>>))
    ELSE IF arg[1] = "var"
    THEN LET kinds == st.fuzzyVariableKinds
             found == FirstIdx([i \in DOMAIN kinds |-> kinds[i].name = arg[3]],
                               Len(kinds))
         IN  IF found = 0 THEN st
             ELSE AddFuzzyVariable(st, [name |-> arg[2],
                                        fuzzyVariableKind |-> kinds[found]])
    ELSE st

\* executeDirective(dir): dir.d is the first word of the line, dir.arg the
\* words after it
ExecuteDirective(st, dir) ==
    IF StartsWith(dir.d, "#stratum")
    THEN [st EXCEPT !.strata = Append(@, <<>>),
                    !.stratumBeingRead = @ + 1]
    ELSE IF StartsWith(dir.d, "#schemacheck")
    THEN (IF dir.arg \in {<<"on">>, <<"off">>}
          THEN [st EXCEPT !.schemaCheck = (dir.arg = <<"on">>)] ELSE st)
    ELSE IF StartsWith(dir.d, "#schema")
    THEN (IF Len(dir.arg) < 3 THEN st
          ELSE IF dir.arg[2] = "_" THEN st
          ELSE IF dir.arg[2] \in PrototypeKeys THEN Throw(st)
          ELSE [st EXCEPT !.patternsForAttributes =
                   Append(@, [attr |-> dir.arg[2],
                              id |-> IF dir.arg[1] = "_" THEN "" ELSE dir.arg[1],
                              val |-> IF dir.arg[3] = "_" THEN "" ELSE dir.arg[3]])])
    ELSE IF StartsWith(dir.d, "#fuzzy") THEN FuzzyDirectiveHandling(st, dir.arg)
    ELSE st

\* the body of the loop over the lines: a directive line is executed, then the
\* clauses accumulated before it are parsed and executed
ReadLine(acc, line) ==
    IF line.t = "dir"
    THEN LET Batch(st1) == IF Halted(st1) THEN [st |-> st1, clauses |-> <<>>]
                           ELSE IF acc.clauses # <<>>
                           THEN [st |-> ParseAndExecute(st1, acc.clauses),
                                 clauses |-> <<>>]
                           ELSE [st |-> st1, clauses |-> <<>>]
         IN  Batch(ExecuteDirective(acc.st, line))
    ELSE [acc EXCEPT !.clauses = Append(@, line)]

RECURSIVE ReadLinesFrom(_, _, _)
ReadLinesFrom(acc, lines, i) ==
    IF i > Len(lines) \/ Halted(acc.st) THEN acc
    ELSE ReadLinesFrom(ReadLine(acc, lines[i]), lines, i + 1)

\* readInputInterpretDirectivesAndParseAndExecute(input)
ReadInput(st, lines) ==
    LET Rest(acc) == IF acc.clauses # <<>> /\ ~Halted(acc.st)
                     THEN ParseAndExecute(acc.st, acc.clauses)
                     ELSE acc.st
    IN  Rest(ReadLinesFrom([st |-> st, clauses |-> <<>>], lines, 1))

-----------------------------------------------------------------------------
(* Conflict resolution *)

\* production.canFire() reports a non-empty delta
InConflict(st, p) == TokensToAdd(st, p) \cup TokensToRemove(st, p) # {}

\* FindConflictSet looking at the tokens to add only
FindConflictSetToAdd(st) ==
    SelectIdx([p \in DOMAIN st.productions |-> TokensToAdd(st, p) # {}],
              1, Len(st.productions))

\* findConflictSet(): the productions with a non-empty delta, in the order of
\* the global production list
FindConflictSet(st) ==
    SelectIdx([p \in DOMAIN st.productions |-> InConflict(st, p)],
              1, Len(st.productions))

\* firstMatchConflictResolution(conflicts): conflicts[0]
FirstMatchConflictResolution(st, conflicts) ==
    [st |-> st, item |-> IF conflicts = <<>> THEN 0 ELSE conflicts[1], threw |-> FALSE]

RECURSIVE StratifiedLoop(_, _, _)
\* the do-while loop of stratifiedManual, entered with cur < strata.length
StratifiedLoop(st, conflicts, cur) ==
    LET stratum == st.strata[cur + 1]
        productionRhses == {st.productions[stratum[k]] : k \in DOMAIN stratum}
        found == FirstIdx([i \in DOMAIN conflicts |->
                              st.productions[conflicts[i]] \in productionRhses],
                          Len(conflicts))
    IN  IF found # 0 THEN [cur |-> cur, item |-> conflicts[found]]
        ELSE IF cur + 1 < Len(st.strata) THEN StratifiedLoop(st, conflicts, cur + 1)
        ELSE [cur |-> cur + 1, item |-> 0]

\* stratifiedManual searching from the first stratum on every call
StratifiedManualFromFirst(st, conflicts) ==
    LET r == StratifiedLoop(st, conflicts, 0)
    IN  [st |-> [st EXCEPT !.currentStratum = r.cur], item |-> r.item, threw |-> FALSE]

\* stratifiedManual(conflicts).  strata[currentStratum] is undefined when the
\* cursor is strata.length on entry: reading .map of it throws a TypeError.
StratifiedManual(st, conflicts) ==
    IF st.currentStratum >= Len(st.strata)
    THEN [st |-> st, item |-> 0, threw |-> TRUE]
    ELSE LET r == StratifiedLoop(st, conflicts, st.currentStratum)
         IN  [st |-> [st EXCEPT !.currentStratum = r.cur], item |-> r.item,
              threw |-> FALSE]

\* selectedConflictResolutionStrategy.fnc(conflicts)
Resolve(name, st, conflicts) ==
    IF name = "stratifiedManual" THEN StratifiedManual(st, conflicts)
    ELSE FirstMatchConflictResolution(st, conflicts)

-----------------------------------------------------------------------------
(* The fuzzy layer *)

\* RetractWMEandJustifications taking the first justification of the record,
\* whatever its kind
RetractAnyJustification(st, w) ==
    LET J == st.justifications
        r == FindRecord(J, w)
        left == RemoveAt(J[r].justifications, 1)
    IN  IF r = 0 THEN [st |-> st, ok |-> FALSE]
        ELSE IF left = <<>>
             THEN [st |-> [RemoveWME(st, w) EXCEPT !.justifications = RemoveAt(J, r)],
                   ok |-> TRUE]
             ELSE [st |-> [st EXCEPT !.justifications =
                               [i \in DOMAIN J |-> IF i = r THEN WMEJustification(w, left)
                                                   ELSE J[i]]],
                   ok |-> TRUE]

\* retractWMEandJustifications(found)
RetractWMEandJustifications(st, w) ==
    LET J == st.justifications
        r == FindRecord(J, w)
        js == J[r].justifications
        k == FirstIdx([i \in DOMAIN js |-> js[i].kind \in {"axiomatic", "defuzz"}],
                      Len(js))
        left == RemoveAt(js, k)
        Retracted(res) == [res EXCEPT !.st = Called(@, "retractWMEandJustifications")]
    IN  Retracted(
        IF r = 0 THEN [st |-> st, ok |-> FALSE]
        ELSE IF k = 0 THEN [st |-> st, ok |-> FALSE]
        ELSE IF left = <<>>
             THEN [st |-> [RemoveWME(st, w) EXCEPT !.justifications = RemoveAt(J, r)],
                   ok |-> TRUE]
             ELSE [st |-> [st EXCEPT !.justifications =
                               [i \in DOMAIN J |-> IF i = r THEN WMEJustification(w, left)
                                                   ELSE J[i]]],
                   ok |-> TRUE])

\* TokenToMu taking the degree of the first FuzzyWME of the token
TokenToMuOfFirst(st, t) ==
    LET ms == FilterBy(t.fz, [i \in DOMAIN t.fz |-> t.fz[i] # Undefined])
    IN  IF ms # <<>> /\ st.fuzzySystem # "" THEN ms[1] ELSE Undefined

\* tokenToMu(token): the conjunction of the degrees of the FuzzyWMEs of the token
TokenToMu(st, t) ==
    LET ms == FilterBy(t.fz, [i \in DOMAIN t.fz |-> t.fz[i] # Undefined])
    IN  IF ms # <<>> /\ st.fuzzySystem # ""
        THEN ComputeConjunction(st.fuzzySystem, ms)
        ELSE Undefined

\* propagateMu(wme): the degree of wme becomes the disjunction of the degrees
\* of the tokens of its production justifications
PropagateMu(st, w) ==
    LET r == FindRecord(st.justifications, w)
        js == st.justifications[r].justifications
        productionJustifications == FilterBy(js, [k \in DOMAIN js |-> js[k].kind = "prod"])
        all == [k \in DOMAIN productionJustifications |->
                   TokenToMu(st, productionJustifications[k].token)]
        mus == FilterBy(all, [k \in DOMAIN all |-> all[k] # Undefined])
        cumulativeMu == IF st.build = IndexTs
                        THEN ComputeDisjunctionIndexTs(st.fuzzySystem, mus)
                        ELSE ComputeDisjunction(st.fuzzySystem, mus)
    IN  IF r = 0 THEN st
        ELSE [st EXCEPT !.mu = {e \in @ : e.wme # w}
                                  \cup {[wme |-> w, mu |-> cumulativeMu]}]

RECURSIVE GroupIdsFrom(_, _, _)
\* the keys of groupedWmes: the ids of wmes, in the order of first appearance
GroupIdsFrom(ids, wmes, i) ==
    IF i > Len(wmes) THEN ids
    ELSE GroupIdsFrom(IF wmes[i][1] \in Range(ids) THEN ids
                      ELSE Append(ids, wmes[i][1]), wmes, i + 1)

Reverse(seq) == [k \in DOMAIN seq |-> seq[Len(seq) + 1 - k]]

\* groupedWmes[id]: addToGroup puts each WME in front of the earlier ones
GroupOf(wmes, id) ==
    Reverse(FilterBy(wmes, [i \in DOMAIN wmes |-> wmes[i][1] = id]))

\* the body of `for (const id in groupedWmes)` in runDefuzzification
DefuzzifyGroup(st, v, id, group) ==
    LET attr == v.name
        values == [k \in DOMAIN group |->
                      ComputeValueForFuzzyMembershipValue(v, group[k][3],
                                                          MuOf(st, group[k]))]
        crispWmes == CrispWMEs(st, id, attr)
        Retracted(finalNumericValue) ==
            IF /\ Len(crispWmes) = 1
               /\ Differs(ParseFloat(st, crispWmes[1]), finalNumericValue)
            THEN RetractWMEandJustifications(st, crispWmes[1]).st
            ELSE st
        Justified(w, res) ==
            IF res.added
            THEN [res.st EXCEPT !.justifications =
                     Append(@, WMEJustification(w, <<DefuzzificationJustification(group)>>))]
            ELSE res.st
        Replace(finalNumericValue) ==
            LET w == <<id, attr, NumberToString(finalNumericValue)>>
            IN  Justified(w, Add(Retracted(finalNumericValue), w, finalNumericValue))
    IN  Replace(DivNum(SumFrom(values, 1), Len(group)))

RECURSIVE DefuzzifyGroups(_, _, _, _, _)
DefuzzifyGroups(st, v, wmes, ids, k) ==
    IF k > Len(ids) THEN st
    ELSE DefuzzifyGroups(DefuzzifyGroup(st, v, ids[k], GroupOf(wmes, ids[k])),
                         v, wmes, ids, k + 1)

\* the body of `for (const fuzzyVariable of rete.fuzzyVariables)`
DefuzzifyVariable(st, v) ==
    LET wmes == FilterBy(st.wm, [i \in DOMAIN st.wm |->
                                    IsFuzzyWME(st, st.wm[i]) /\ st.wm[i][2] = v.name])
    IN  IF wmes = <<>> THEN st
        ELSE DefuzzifyGroups(st, v, wmes, GroupIdsFrom(<<>>, wmes, 1), 1)

RECURSIVE DefuzzifyFrom(_, _)
DefuzzifyFrom(st, i) ==
    IF i > Len(st.fuzzyVariables) THEN st
    ELSE DefuzzifyFrom(DefuzzifyVariable(st, st.fuzzyVariables[i]), i + 1)

\* runDefuzzification(); src/index.ts has no defuzzification
RunDefuzzification(st) ==
    IF st.build = IndexTs THEN st
    ELSE DefuzzifyFrom(Called(st, "runDefuzzification"), 1)

-----------------------------------------------------------------------------
(* The cycle driver *)

RECURSIVE RemoveWMEs(_, _, _)
RemoveWMEs(st, ws, i) ==
    IF i > Len(ws) THEN st
    ELSE RemoveWMEs(Called(RemoveWME(st, ws[i]), "removeWME"), ws, i + 1)

\* the justification the removal loop looks for: (prod, token)
IsProdOf(jj, name, t) == jj.kind = "prod" /\ jj.prod = name /\ jj.token = t

\* KeptOnWithdraw without the test of the token: nothing of the rule is withdrawn
KeptOnWithdrawAnyToken(js, name, t) ==
    FilterBy(js, [k \in DOMAIN js |-> js[k].kind = "prod" /\ js[k].prod = name])

\* what the removal loop keeps of a record that holds (name, t)
KeptOnWithdraw(js, name, t) ==
    FilterBy(js, [k \in DOMAIN js |->
                     js[k].kind = "prod" /\ js[k].prod = name /\ js[k].token # t])

\* WithdrawToken leaving every record as it is
WithdrawTokenKeepingRecords(st, name, t) == Called(st, "withdraw")

\* the body of `for (const token of tokensToRemove)` in run()
WithdrawToken(st, name, t) ==
    LET J == st.justifications
        holds(i) == \E k \in DOMAIN J[i].justifications :
                        IsProdOf(J[i].justifications[k], name, t)
        J2 == [i \in DOMAIN J |->
                  IF holds(i)
                  THEN [J[i] EXCEPT !.justifications = KeptOnWithdraw(@, name, t)]
                  ELSE J[i]]
        empty == SelectIdx([i \in DOMAIN J |-> holds(i) /\ J2[i].justifications = <<>>],
                           1, Len(J))
    IN  RemoveWMEs(Called([st EXCEPT !.justifications = J2], "withdraw"),
                   [k \in DOMAIN empty |-> J[empty[k]].wme], 1)

RECURSIVE WithdrawTokens(_, _, _, _)
WithdrawTokens(st, name, ts, i) ==
    IF i > Len(ts) THEN st
    ELSE WithdrawTokens(WithdrawToken(st, name, ts[i]), name, ts, i + 1)

\* Prune keeping every record
PruneNothing(st) == st

\* justifications = justifications.filter(j => j.justifications.length)
Prune(st) ==
    Called([st EXCEPT !.justifications =
               FilterBy(@, [i \in DOMAIN @ |-> @[i].justifications # <<>>])],
           "prune")

RECURSIVE PushNew(_, _, _, _)
\* for (const wme of wmesAdded) justifications.push({wme, [jj]})
PushNew(J, added, jj, i) ==
    IF i > Len(added) THEN J
    ELSE PushNew(Append(J, WMEJustification(added[i], <<jj>>)), added, jj, i + 1)

RECURSIVE PushExisting(_, _, _, _)
\* for (const wme of wmesExisting): push jj to the record found, if any, and
\* propagate the degree of a FuzzyWME
PushExisting(st, existing, jj, i) ==
    IF i > Len(existing) THEN st
    ELSE LET w == existing[i]
             J == st.justifications
             r == FindRecord(J, w)
             Propagated(st1) == IF st.fuzzySystem # "" /\ IsFuzzyWME(st, w)
                                THEN PropagateMu(st1, w)
                                ELSE st1
             st2 == IF r = 0 THEN st
                    ELSE Propagated([st EXCEPT !.justifications =
                             [n \in DOMAIN J |->
                                 IF n = r THEN WMEJustification(w, Append(J[n].justifications, jj))
                                 ELSE J[n]]])
         IN  PushExisting(st2, existing, jj, i + 1)

\* the body of `for (const token of tokensToAdd)` in run()
AssertForToken(st, p, t) ==
    LET name == st.productions[p]
        rhs == RuleDef(name).rhsAssert
        ws == [i \in DOMAIN rhs |-> <<RhsId(name, t.s), rhs[i][1], rhs[i][2]>>]
        jj == ProductionJustification(name, t)
        Justified(res) ==
            PushExisting([res.st EXCEPT !.justifications = PushNew(@, res.added, jj, 1)],
                         res.existing, jj, 1)
    IN  RunDefuzzification(Justified(
            AddWMEsFromConditions(Called(st, "addWMEsFromConditions"), ws,
                                  TokenToMu(st, t))))

RECURSIVE AssertForTokens(_, _, _, _)
AssertForTokens(st, p, ts, i) ==
    IF i > Len(ts) THEN st
    ELSE AssertForTokens(AssertForToken(st, p, ts[i]), p, ts, i + 1)

\* Fire with the RHS asserted for the tokens to add before the removals
FireAssertingFirst(st, p) ==
    LET tokensToAdd == TokSeq(TokensToAdd(st, p))
        tokensToRemove == TokSeq(TokensToRemove(st, p))
        st1 == WillFire(st, p)
        Asserted(st2) == IF st.hasAssert[p] THEN AssertForTokens(st2, p, tokensToAdd, 1)
                         ELSE st2
    IN  Prune(WithdrawTokens(Asserted(st1), st.productions[p], tokensToRemove, 1))

\* run(), from willFire() to the end of the loop body, for the selected item
Fire(st, p) ==
    LET tokensToAdd == TokSeq(TokensToAdd(st, p))
        tokensToRemove == TokSeq(TokensToRemove(st, p))
        st1 == WillFire(st, p)
        Asserted(st2) == IF st.hasAssert[p] THEN AssertForTokens(st2, p, tokensToAdd, 1)
                         ELSE st2
    IN  Asserted(Prune(WithdrawTokens(st1, st.productions[p], tokensToRemove, 1)))

\* one execution of the loop body of run()
RunBody(name, st) ==
    LET Selected(conflicts, sel) ==
            IF conflicts = <<>> THEN [st |-> st, outcome |-> "empty", item |-> 0]
            ELSE IF sel.threw THEN [st |-> st, outcome |-> "threw", item |-> 0]
            ELSE IF sel.item = 0 THEN [st |-> sel.st, outcome |-> "none", item |-> 0]
            ELSE [st |-> Fire(sel.st, sel.item), outcome |-> "fired", item |-> sel.item]
        Resolved(conflicts) == Selected(conflicts, Resolve(name, st, conflicts))
    IN  Resolved(FindConflictSet(st))

RECURSIVE RunToEnd(_, _, _)
\* run(): the loop to its end, cy being the cycle counter; the state it leaves
\* (the state at the TypeError when the resolver throws)
RunToEnd(name, st, cy) ==
    LET Looped(r) == IF r.outcome = "fired" /\ cy <= MAX_CYCLES
                     THEN RunToEnd(name, r.st, cy + 1)
                     ELSE r.st
    IN  Looped(RunBody(name, st))

-----------------------------------------------------------------------------
(* explain *)

\* a line of the explanation: the indentation in units of four spaces, the
\* text, the WME the call is about and the WMEs on the path to it
Line(depth, text, w, visited) ==
    [depth |-> depth, text |-> text, wme |-> w, visited |-> visited]

RECURSIVE ExplainWMEUnmarked(_, _, _, _, _)
RECURSIVE ExplainWME(_, _, _, _, _)
RECURSIVE ExplainMembers(_, _, _, _, _, _)
RECURSIVE ExplainJustifications(_, _, _, _, _, _)

\* the loop over the WMEs of a token or of a defuzzification: the line of each
\* WME, then its explanation, four spaces deeper
ExplainMembers(st, ws, k, depth, newVisited, frames) ==
    IF k > Len(ws) THEN <<>>
    ELSE <<Line(depth, "wme", ws[k], newVisited)>>
         \o ExplainWME(st, ws[k], depth + 1, newVisited, frames + 1)
         \o ExplainMembers(st, ws, k + 1, depth, newVisited, frames)

\* the loop over the justifications of the record of found
ExplainJustifications(st, found, i, depth, visited, frames) ==
    LET js == JustificationsOf(st.justifications, found)
        jj == js[i]
        newVisited == Append(visited, found)
        rest == ExplainJustifications(st, found, i + 1, depth, visited, frames)
    IN  IF i > Len(js) THEN <<>>
        ELSE IF jj.kind = "axiomatic"
        THEN <<Line(depth, "[Axiomatic]", found, visited)>> \o rest
        ELSE IF jj.kind = "defuzz"
        THEN <<Line(depth, "[Defuzzification of:]", found, visited)>>
             \o ExplainMembers(st, jj.wmes, 1, depth, newVisited, frames)
             \o rest
        ELSE <<Line(depth, jj.prod, found, visited)>>
             \o ExplainMembers(st, TokenWMEs(jj.prod, jj.token), 1, depth, newVisited,
                               frames)
             \o rest

\* explainWME(found, indentation, visited) of src/index.ts: a WME without
\* record has no explanation
ExplainUnrecordedIndexTs(st, found, depth, visited) == <<>>

\* explainWME(found, indentation, visited) for a WME without record: the
\* fuzzification of the crisp WME of its id and attribute when its attribute is
\* a fuzzy variable
ExplainUnrecorded(st, found, depth, visited) ==
    LET crisp == FilterBy(st.wm, [i \in DOMAIN st.wm |->
                                     /\ ~IsFuzzyWME(st, st.wm[i])
                                     /\ st.wm[i][1] = found[1]
                                     /\ st.wm[i][2] = found[2]])
    IN  IF GetFuzzyVariable(st, found[2]) = 0 \/ crisp = <<>> THEN <<>>
        ELSE <<Line(depth, "[Fuzzification of:]", crisp[1], visited)>>

\* explainWME without the test of visited
ExplainWMEUnmarked(st, found, depth, visited, frames) ==
    IF frames > MaxStack THEN <<Line(depth, "RangeError", found, visited)>>
    ELSE IF ~HasRecord(st.justifications, found)
    THEN (IF st.build = IndexTs THEN ExplainUnrecordedIndexTs(st, found, depth, visited)
          ELSE ExplainUnrecorded(st, found, depth, visited))
    ELSE ExplainJustifications(st, found, 1, depth, visited, frames)

\* explainWME(found, indentation, visited): the lines of the explanation
ExplainWME(st, found, depth, visited, frames) ==
    IF frames > MaxStack THEN <<Line(depth, "RangeError", found, visited)>>
    ELSE IF found \in Range(visited) THEN <<Line(depth, "(*)", found, visited)>>
    ELSE IF ~HasRecord(st.justifications, found)
    THEN (IF st.build = IndexTs THEN ExplainUnrecordedIndexTs(st, found, depth, visited)
          ELSE ExplainUnrecorded(st, found, depth, visited))
    ELSE ExplainJustifications(st, found, 1, depth, visited, frames)

\* what the command `explain` prints for w: nothing but a warning when w is
\* not in working memory
Explanation(st, w) == IF InWM(st, w) THEN ExplainWME(st, w, 0, <<>>, 1) ELSE <<>>

-----------------------------------------------------------------------------
(* The handlers *)

\* the program state the operators above work on
Cur == [wm |-> working_memory, mu |-> mu, numeric |-> numeric, fuzzySystem |-> fuzzySystem,
        fuzzyVariableKinds |-> fuzzyVariableKinds, fuzzyVariables |-> fuzzyVariables,
        schemaCheck |-> schemaCheck, patternsForAttributes |-> patternsForAttributes,
        warnings |-> warnings, halt |-> "", build |-> build, events |-> <<>>,
        items |-> items, fired |-> fired, gen |-> gen,
        productions |-> productions, hasAssert |-> hasAssert, strata |-> strata,
        stratumBeingRead |-> stratumBeingRead, justifications |-> justifications,
        currentStratum |-> currentStratum]

\* the set of the WMEs of working memory
wm == Range(working_memory)

\* why a WME that a step removes was removed: the WME a retract names by the
\* retract, a crisp value of a fuzzy variable by defuzzification, any other
\* one by the withdrawal of a token
Cause(st, what, subject, w) ==
    IF what = "retract" /\ w = subject THEN "retract"
    ELSE IF GetFuzzyVariable(st, w[2]) # 0 /\ ParseFloat(st, w) # NaN
         THEN "defuzzification"
    ELSE "withdrawal"

Becomes(st) ==
    /\ working_memory' = st.wm
    /\ mu' = st.mu
    /\ numeric' = st.numeric
    /\ fuzzySystem' = st.fuzzySystem
    /\ fuzzyVariableKinds' = st.fuzzyVariableKinds
    /\ fuzzyVariables' = st.fuzzyVariables
    /\ schemaCheck' = st.schemaCheck
    /\ patternsForAttributes' = st.patternsForAttributes
    /\ warnings' = st.warnings
    /\ items' = st.items
    /\ fired' = st.fired
    /\ gen' = st.gen
    /\ productions' = st.productions
    /\ hasAssert' = st.hasAssert
    /\ strata' = st.strata
    /\ stratumBeingRead' = st.stratumBeingRead
    /\ justifications' = st.justifications
    /\ currentStratum' = st.currentStratum
    /\ build' = st.build
    /\ events' = st.events

Observed(what, outcome, item, subject) ==
    [what |-> what, outcome |-> outcome, item |-> item, subject |-> subject]

NoWME == <<"", "", "">>

\* what the caller of run() does when run() returns
AfterRun(who, st) == IF who = "retract" THEN RunDefuzzification(st) ELSE st

Init ==
    /\ prog \in Programs
    /\ strategy \in ArgumentsFor(prog)
    /\ strategyName = SelectStrategy(strategy)
    /\ pc = "start"
    /\ caller = "main"
    /\ working_memory = <<>>
    /\ mu = {}
    /\ numeric = {}
    /\ fuzzySystem = ""
    /\ fuzzyVariableKinds = <<>>
    /\ fuzzyVariables = <<>>
    /\ schemaCheck = FALSE
    /\ patternsForAttributes = <<>>
    /\ warnings = 0
    /\ exitCode = NoExit
    /\ bodies = 0
    /\ gone = {}
    /\ items = <<>>
    /\ fired = <<>>
    /\ gen = <<>>
    /\ productions = <<>>
    /\ hasAssert = <<>>
    /\ strata = << <<>> >>
    /\ stratumBeingRead = 0
    /\ justifications = <<>>
    /\ currentStratum = 0
    /\ cycle = 1
    /\ threw = FALSE
    /\ ncmds = 0
    /\ runs = <<>>
    /\ last = Observed("init", "", 0, NoWME)
    /\ build \in Versions(prog)
    /\ events = <<>>
    /\ defuzzified = FALSE

\* the exit status of a process ended by process.exit() or by an uncaught
\* exception
ExitStatus(st) ==
    IF st.halt = "exit" THEN 0 ELSE IF st.halt = "throw" THEN 1 ELSE NoExit

\* the main program from the reading of the input file to the call of run()
LoadFile(st, lines) ==
    LET Defuzzified(st1) == IF Halted(st1) THEN st1 ELSE RunDefuzzification(st1)
    IN  Defuzzified(ReadInput(st, lines))

\* the main program up to the call of run(): the input file is read, then
\* runDefuzzification()
Load ==
    /\ pc = "start"
    /\ LET Loaded(st) ==
               /\ Becomes(IF Halted(st) THEN st ELSE Called(st, "run"))
               /\ pc' = IF Halted(st) THEN "exited" ELSE "running"
               /\ exitCode' = ExitStatus(st)
               /\ threw' = (st.halt = "throw")
               /\ last' = Observed("load", st.halt, 0, NoWME)
       IN  Loaded(LoadFile(Cur, Lines(prog)))
    /\ caller' = "main"
    /\ bodies' = 0
    /\ defuzzified' = (Calls(events', "runDefuzzification") # {})
    /\ UNCHANGED <<prog, strategy, strategyName, cycle, ncmds, runs, gone>>

\* one iteration of the do-while loop of run(), and, when the loop is left,
\* the rest of the handler that called run()
Cycle ==
    /\ pc = "running"
    /\ LET Step(r, again) ==
               /\ Becomes(IF again \/ r.outcome = "threw" THEN r.st
                          ELSE AfterRun(caller, r.st))
               /\ cycle' = IF r.outcome = "fired" THEN cycle + 1 ELSE cycle
               /\ pc' = IF again THEN "running" ELSE "idle"
               /\ threw' = (r.outcome = "threw")
               /\ runs' = IF again THEN runs
                          ELSE Append(runs, IF r.outcome = "fired" THEN "limit"
                                            ELSE r.outcome)
               /\ last' = Observed("cycle", r.outcome, r.item, NoWME)
               /\ bodies' = bodies + 1
           Body(r) == Step(r, r.outcome = "fired" /\ cycle <= MAX_CYCLES)
       IN  Body(RunBody(strategyName, Cur))
    /\ gone' = gone \cup {<<Cause(Cur, "cycle", NoWME, w), w>> : w \in wm \ wm'}
    /\ defuzzified' = (defuzzified \/ Calls(events', "runDefuzzification") # {})
    /\ UNCHANGED <<prog, strategy, strategyName, caller, ncmds, exitCode>>

\* the command `retract ID ATTR VAL`, up to the call of run()
InteractiveRetract(w) ==
    /\ pc = "idle"
    /\ ncmds < MaxCmds
    /\ ncmds' = ncmds + 1
    /\ threw' = FALSE
    /\ LET Retracted(res) ==
               IF res.ok
               THEN /\ Becomes(Called(RunDefuzzification(res.st), "run"))
                    /\ pc' = "running"
                    /\ caller' = "retract"
                    /\ last' = Observed("retract", "ok", 0, w)
               ELSE /\ Becomes(res.st)
                    /\ pc' = "idle"
                    /\ caller' = caller
                    /\ last' = Observed("retract", "refused", 0, w)
       IN  Retracted(IF InWM(Cur, w) THEN RetractWMEandJustifications(Cur, w)
                     ELSE [st |-> Cur, ok |-> FALSE])
    /\ gone' = gone \cup {<<Cause(Cur, "retract", w, x), x>> : x \in wm \ wm'}
    /\ bodies' = 0
    /\ defuzzified' = IF pc' = "running" THEN Calls(events', "runDefuzzification") # {}
                      ELSE defuzzified
    /\ UNCHANGED <<prog, strategy, strategyName, cycle, runs, exitCode>>

\* the command `run <clauses>`, up to the call of run()
InteractiveRun(lines) ==
    /\ pc = "idle"
    /\ ncmds < MaxCmds
    /\ ncmds' = ncmds + 1
    /\ LET Read(st) ==
               /\ Becomes(IF Halted(st) THEN st ELSE Called(st, "run"))
               /\ pc' = IF st.halt = "exit" THEN "exited"
                        ELSE IF st.halt = "throw" THEN "idle" ELSE "running"
               /\ exitCode' = IF st.halt = "exit" THEN 0 ELSE exitCode
               /\ threw' = (st.halt = "throw")
               /\ caller' = IF Halted(st) THEN caller ELSE "run"
               /\ last' = Observed("run", st.halt, 0, NoWME)
       IN  Read(ReadInput(Cur, lines))
    /\ bodies' = 0
    /\ defuzzified' = IF pc' = "running" THEN Calls(events', "runDefuzzification") # {}
                      ELSE defuzzified
    /\ UNCHANGED <<prog, strategy, strategyName, cycle, runs, gone>>

\* the command `explain ID ATTR VAL`: it prints, and changes nothing
InteractiveExplain(w) ==
    /\ pc = "idle"
    /\ last' = Observed("explain",
                        IF ~InWM(Cur, w) THEN "refused"
                        ELSE IF \E k \in DOMAIN Explanation(Cur, w) :
                                    Explanation(Cur, w)[k].text = "RangeError"
                        THEN "RangeError" ELSE "ok",
                        0, w)
    /\ events' = <<>>
    /\ UNCHANGED <<prog, strategy, strategyName, pc, caller, working_memory, mu, numeric,
                   fuzzySystem, fuzzyVariableKinds, fuzzyVariables, schemaCheck,
                   patternsForAttributes, warnings, items, fired, gen, productions,
                   hasAssert, strata, stratumBeingRead, justifications, currentStratum,
                   cycle, threw, exitCode, bodies, ncmds, runs, gone, build,
                   defuzzified>>

Next ==
    \/ Load
    \/ Cycle
    \/ \E w \in RetractTargets : InteractiveRetract(w)
    \/ \E lines \in RunInputs : InteractiveRun(lines)
    \/ \E w \in ExplainTargets(prog) : InteractiveExplain(w)

Spec == Init /\ [][Next]_vars

TypeOK ==
    /\ pc \in {"start", "running", "idle", "exited"}
    /\ Len(items) = Len(productions)
    /\ Len(fired) = Len(productions)
    /\ Len(strata) = stratumBeingRead + 1
    /\ currentStratum \in 0..Len(strata)

-----------------------------------------------------------------------------
(* Properties *)

IsPrefix(a, b) == Len(a) <= Len(b) /\ \A i \in DOMAIN a : a[i] = b[i]

HoldsAxiomatic(J, w) ==
    \E k \in DOMAIN JustificationsOf(J, w) : JustificationsOf(J, w)[k].kind = "axiomatic"

NumAxiomatic(J, w) ==
    Cardinality({k \in DOMAIN JustificationsOf(J, w) :
                    JustificationsOf(J, w)[k].kind = "axiomatic"})

\* this step is an iteration of run() that fires a production
FiringStep == pc = "running" /\ last'.what = "cycle" /\ last'.outcome = "fired"

\* jj is a justification (r, t) of the production fired in this step, with t
\* one of the tokens its firing withdraws
WithdrawnByStep(jj) ==
    /\ jj.kind = "prod"
    /\ jj.prod = productions[last'.item]
    /\ jj.token \in TokensToRemove(Cur, last'.item)

\* w is a crisp value of a fuzzy variable: a WME that defuzzification replaces
ByDefuzzification(w) == Cause(Cur, "cycle", NoWME, w) = "defuzzification"

\* C1: a rule firing removes a WME from working memory only when every
\* justification it held has been withdrawn; a WME that holds an axiomatic
\* justification stays in working memory and keeps its record.  (The crisp
\* values that defuzzification replaces are left aside.)
C1_RemovedOnlyWhenUnjustified ==
    [][FiringStep =>
         \A w \in {x \in wm : ~ByDefuzzification(x)} :
            /\ w \notin wm' =>
                  \A k \in DOMAIN JustificationsOf(justifications, w) :
                      WithdrawnByStep(JustificationsOf(justifications, w)[k])
            /\ HoldsAxiomatic(justifications, w) =>
                  w \in wm' /\ HasRecord(justifications', w)]_vars

\* C2: a firing that withdraws token t of rule r deletes exactly the
\* justifications (r, t): the other justifications of every record are kept, in
\* order, and a record that holds another justification is kept.  (The records
\* of the crisp values that defuzzification replaces are left aside.)
C2_OnlyWithdrawnJustificationsDeleted ==
    [][FiringStep =>
         \A i \in DOMAIN justifications :
            LET js == justifications[i].justifications
                others == FilterBy(js, [k \in DOMAIN js |-> ~WithdrawnByStep(js[k])])
            IN  (others # <<>> /\ ~ByDefuzzification(justifications[i].wme)) =>
                  /\ HasRecord(justifications', justifications[i].wme)
                  /\ IsPrefix(others,
                              JustificationsOf(justifications', justifications[i].wme))]_vars

\* C3: every WME of working memory, a FuzzyWME and a WME that an RHS assertion
\* found existing included, has a record in the justification store that holds
\* at least one justification, at every cycle boundary and after every load and
\* interactive command.
C3_EveryWMEJustified ==
    \A w \in wm :
        /\ HasRecord(justifications, w)
        /\ JustificationsOf(justifications, w) # <<>>

\* C4: every record of the justification store holds at least one
\* justification and its WME is in working memory: no record is left for a WME
\* removed by a token withdrawal, by retract or by defuzzification.
C4_EveryRecordLive ==
    /\ \A i \in DOMAIN justifications :
           /\ justifications[i].justifications # <<>>
           /\ justifications[i].wme \in wm
    /\ \A g \in gone : g[2] \notin wm => ~HasRecord(justifications, g[2])

\* WMEs have been removed in each of the three ways, and one of them is still
\* out of working memory
C4_Witness ==
    /\ pc = "idle"
    /\ {"withdrawal", "retract", "defuzzification"} \subseteq {g[1] : g \in gone}
    /\ \E g \in gone : g[2] \notin wm

DuckIsABird == <<"duck", "is-a", "bird">>

\* C5: the same axiomatic fact asserted twice is one WME with two axiomatic
\* justifications; one retract leaves it in working memory.
C5_TwoAxiomaticJustifications ==
    prog = "twice" =>
        /\ (pc # "start" /\ ncmds = 0) =>
               DuckIsABird \in wm /\ NumAxiomatic(justifications, DuckIsABird) = 2
        /\ (ncmds = 1 /\ last = Observed("retract", "ok", 0, DuckIsABird)) =>
               DuckIsABird \in wm

RECURSIVE DirectivesBefore(_, _)
\* the number of `#stratum` lines among the first n lines
DirectivesBefore(lines, n) ==
    IF n = 0 THEN 0
    ELSE DirectivesBefore(lines, n - 1)
         + (IF lines[n].t = "dir" /\ lines[n].d = "#stratum" THEN 1 ELSE 0)

\* the production clauses of the source, in declaration order (line numbers)
ProductionLines(lines) ==
    SelectIdx([n \in DOMAIN lines |-> lines[n].t = "prod"], 1, Len(lines))

\* C6: after loading, a production preceded in the source by exactly k
\* `#stratum` directives is in stratum k and in no other; the global list and
\* every stratum are in declaration order.
C6_StratumIsDirectivesBefore ==
    (pc \notin {"start", "exited"} /\ ncmds = 0) =>
        LET lines == Lines(prog)
            decl == ProductionLines(lines)
        IN  /\ productions = [p \in DOMAIN decl |-> lines[decl[p]].rhs]
            /\ \A p \in DOMAIN decl : \A k \in DOMAIN strata :
                   (p \in Range(strata[k])) <=> (k - 1 = DirectivesBefore(lines, decl[p]))
            /\ \A k \in DOMAIN strata : \A i, j \in DOMAIN strata[k] :
                   i < j => strata[k][i] < strata[k][j]

RobbinFlyCan == <<"robbin", "fly", "can">>

InScenario1 == prog = "scenario1" /\ strategyName = "stratifiedManual" /\ ncmds = 0

\* C7: scenario 1 under stratified-manual: the run stops before the cycle limit
\* with (robbin fly can) in working memory, and (robbin fly can) is never
\* removed once added.
C7_Scenario1Stable ==
    /\ [](InScenario1 /\ pc = "idle" =>
              cycle <= MAX_CYCLES /\ RobbinFlyCan \in wm)
    /\ [][InScenario1 /\ RobbinFlyCan \in wm => RobbinFlyCan \in wm']_vars

InScenario2 == prog = "scenario2" /\ strategyName = "firstMatch" /\ ncmds = 0

\* C8: scenario 2 under first-match: every iteration of the run fires the rule
\* (the conflict set is never empty), (robbin fly can) is added by the odd
\* iterations and removed by the even ones, and the run ends at the cycle limit.
C8_Scenario2Oscillates ==
    InScenario2 =>
        /\ last.what = "cycle" => last.outcome = "fired"
        /\ pc # "start" => (RobbinFlyCan \in wm <=> cycle % 2 = 0)
        /\ pc = "idle" => cycle > MAX_CYCLES

C8_Witness ==
    InScenario2 /\ pc = "idle" /\ cycle > MAX_CYCLES /\ RobbinFlyCan \in wm

\* C10: the cursor of stratifiedManual starts at 0 and never decreases, within
\* a run and across the runs of one process.
C10_CursorMonotonic ==
    /\ currentStratum = 0
    /\ [][currentStratum' >= currentStratum]_vars

C10_Witness ==
    strategyName = "stratifiedManual" /\ ncmds > 0 /\ caller = "retract"
    /\ last.what = "cycle" /\ last.outcome = "fired" /\ currentStratum > 0


\* the member of a token of binding s matched by condition c is in G; for a
\* fuzzification, the crisp WME it was made from is in G
MemberIn(G, s, c) ==
    IF IsFuzzyCondition(Cur, c)
    THEN \E w \in G : w[1] = s /\ w[2] = c[1] /\ ParseFloat(Cur, w) # NaN
    ELSE <<s, c[1], c[2]>> \in G

\* the WMEs of W that hold an axiomatic or defuzzification justification, or a
\* production-derived one whose token consists of WMEs of G
SupportedBy(J, W, G) ==
    {w \in W : \E k \in DOMAIN JustificationsOf(J, w) :
        LET jj == JustificationsOf(J, w)[k]
            lhs == RuleDef(jj.prod).pos
        IN  \/ jj.kind \in {"axiomatic", "defuzz"}
            \/ jj.kind = "prod" /\ \A i \in DOMAIN lhs : MemberIn(G, jj.token.s, lhs[i])}

RECURSIVE GroundedFrom(_, _, _)
GroundedFrom(J, W, G) ==
    LET G1 == SupportedBy(J, W, G)
    IN  IF G1 = G THEN G ELSE GroundedFrom(J, W, G1)

\* the WMEs of W supported, directly or transitively, by a fact of W
Grounded(J, W) == GroundedFrom(J, W, {})

Completed(how) == how \in {"empty", "none"}

\* every WME of working memory has a record (no assert was cut short)
AllRecorded == \A w \in wm : HasRecord(justifications, w)

\* C9: a retract entered after a completed stratified-manual run starts a run
\* that completes normally (the resolver does not fail, nothing is left to
\* select), after which no WME is left in working memory that was supported
\* only, directly or transitively, through the retracted fact.  (The states
\* where an assert was cut short are left aside.)
C9_RetractRestabilizes ==
    (/\ strategyName = "stratifiedManual" /\ AllRecorded
     /\ pc = "idle" /\ caller = "retract" /\ last.what = "cycle"
     /\ Len(runs) >= 2 /\ Completed(runs[Len(runs) - 1]))
    => /\ ~threw
       /\ Completed(runs[Len(runs)])
       /\ wm \subseteq Grounded(justifications, wm)

\* the stratum, counted from 0, whose list holds production p
StratumOf(p) == CHOOSE k \in 0..(Len(strata) - 1) : p \in Range(strata[k + 1])

\* C11: under stratified-manual a production of a stratum that the cursor has
\* moved past is not fired again: the production fired by an iteration of run()
\* is of the stratum of the cursor on entry or of a later one.
C11_AbandonedStratumIgnored ==
    [][(FiringStep /\ strategyName = "stratifiedManual") =>
           StratumOf(last'.item) >= currentStratum]_vars

\* the strata from s on that hold a production of the conflict set
ConflictStrata(conflicts, s) ==
    {k \in s..(Len(strata) - 1) :
        \E i \in DOMAIN conflicts : conflicts[i] \in Range(strata[k + 1])}

\* C12: called with the cursor s below the number of strata, stratifiedManual
\* returns the first item of the conflict set whose production is of the lowest
\* stratum s' >= s that holds a production of the conflict set, and leaves the
\* cursor at s'; when there is no such stratum it returns none and leaves the
\* cursor at the number of strata.
C12_LowestStratumFirstItem ==
    (pc = "running" /\ strategyName = "stratifiedManual"
     /\ currentStratum < Len(strata) /\ FindConflictSet(Cur) # <<>>) =>
        LET conflicts == FindConflictSet(Cur)
            r == StratifiedManual(Cur, conflicts)
            S == ConflictStrata(conflicts, currentStratum)
            lowest == CHOOSE k \in S : \A j \in S : k <= j
            first == FirstIdx([i \in DOMAIN conflicts |->
                                  conflicts[i] \in Range(strata[lowest + 1])],
                              Len(conflicts))
        IN  IF S = {}
            THEN r.item = 0 /\ r.st.currentStratum = Len(strata)
            ELSE r.item = conflicts[first] /\ r.st.currentStratum = lowest

\* the pending token delta of production p: tokens to add and tokens to remove
Pending(p) == (items[p] \ fired[p]) \cup (fired[p] \ items[p])

WithPending == {p \in DOMAIN productions : Pending(p) # {}}

\* C13: in every iteration of run() the conflict set holds exactly the
\* productions whose pending token delta is not empty, in the order of the
\* global list; first-match fires the first of them; an iteration commits the
\* delta of at most one production.
C13_ConflictSetAndFirstMatch ==
    [][(pc = "running" /\ last'.what = "cycle") =>
           LET conflicts == FindConflictSet(Cur)
           IN  /\ Range(conflicts) = WithPending
               /\ \A i, j \in DOMAIN conflicts : i < j => conflicts[i] < conflicts[j]
               /\ (strategyName = "firstMatch" /\ WithPending # {}) =>
                      /\ last'.outcome = "fired"
                      /\ \A p \in WithPending : last'.item <= p
                      /\ last'.item \in WithPending
               /\ \A p \in DOMAIN productions :
                      fired'[p] # fired[p] => p = last'.item]_vars

\* first-match has fired the first of two productions with a pending delta, one
\* of them with tokens to remove only
C13_Witness ==
    /\ strategyName = "firstMatch" /\ last.what = "cycle" /\ last.outcome = "fired"
    /\ \E p \in WithPending : p > last.item
    /\ \E p \in WithPending : items[p] \ fired[p] = {}

\* C14: one call of run() executes its loop body at most MAX_CYCLES times.
C14_AtMostMaxCyclesBodies == bodies <= MAX_CYCLES

\* C15: a call of run() ends because the conflict set is empty, because the
\* resolver returns none, or because the cycle limit is exceeded.
C15_RunEndsNormally ==
    \A i \in DOMAIN runs : runs[i] \in {"empty", "none", "limit"}

\* the record of w holds an axiomatic or a defuzzification justification
Retractable(J, w) ==
    \E k \in DOMAIN JustificationsOf(J, w) :
        JustificationsOf(J, w)[k].kind \in {"axiomatic", "defuzz"}

\* C16: a retract of a WME that is not in working memory, or whose record holds
\* production justifications only, changes neither working memory, nor the
\* justification store, nor the stratum cursor, nor the cycle counter, and
\* starts no run.
C16_RefusedRetractChangesNothing ==
    [][(pc = "idle" /\ last'.what = "retract" /\ ncmds' = ncmds + 1
        /\ (last'.subject \notin wm \/ ~Retractable(justifications, last'.subject))) =>
           /\ working_memory' = working_memory
           /\ justifications' = justifications
           /\ currentStratum' = currentStratum
           /\ cycle' = cycle
           /\ runs' = runs
           /\ pc' = "idle"]_vars

\* a retract of a WME of working memory whose record holds production
\* justifications only has been refused
C16_Witness ==
    /\ last.what = "retract" /\ last.outcome = "refused"
    /\ last.subject \in wm
    /\ JustificationsOf(justifications, last.subject) # <<>>
    /\ ~Retractable(justifications, last.subject)

\* C17: no two productions of the global list have the same rule name.
C17_RuleNamesUnique ==
    \A p, q \in DOMAIN productions : p # q => productions[p] # productions[q]

\* C18: a process ended by a parse error has a non-zero exit status.
C18_ParseErrorExitsNonZero ==
    (pc = "exited" /\ last.outcome = "exit") => exitCode # 0

\* the malformed and unrecognised directives
MalformedDirectives ==
    {Directive("#schemacheck", <<"maybe">>),
     Directive("#schema", <<"x", "_", "y">>),
     Directive("#fuzzy", <<"system", "foo">>),
     Directive("#fuzzy", <<"var", "v", "undeclaredkind">>),
     Directive("#fuzzy", <<"kind", "ktriangle">>),
     Directive("#fuzzy", <<"kind", "kbare">>),
     Directive("#stratumX", <<>>)}

\* what the directives configure
Configured(st) ==
    <<st.strata, st.stratumBeingRead, st.schemaCheck, st.patternsForAttributes,
      st.fuzzyVariableKinds, st.fuzzyVariables, st.fuzzySystem>>

\* C19: executing a malformed or unrecognised directive changes nothing of what
\* the directives configure, and the reading goes on with the next line.
C19_MalformedDirectiveIgnored ==
    pc # "start" =>
        \A dir \in MalformedDirectives :
            /\ Configured(ExecuteDirective(Cur, dir)) = Configured(Cur)
            /\ ~Halted(ExecuteDirective(Cur, dir))

SchemaCheckOff(st) == [st EXCEPT !.schemaCheck = FALSE]

\* C20: the input of a `run` command leaves the same working memory and the
\* same justification store, and is followed by the same run, with schema check
\* on and with schema check off.
C20_SchemaCheckChangesNothing ==
    pc = "idle" =>
        \A lines \in RunInputs :
            LET on == ReadInput(Cur, lines)
                off == ReadInput(SchemaCheckOff(Cur), lines)
            IN  /\ on.wm = off.wm
                /\ on.justifications = off.justifications
                /\ on.halt = off.halt


\* the program state of the firing of production p when its removals are done
\* and none of its RHS assertions is made yet
BeforeAssertions(p) ==
    Prune(WithdrawTokens(WillFire(Cur, p), productions[p],
                         TokSeq(TokensToRemove(Cur, p)), 1))

\* the WMEs that the firing of production p asserts for token t
RhsWMEs(p, t) ==
    IF hasAssert[p]
    THEN {<<RhsId(productions[p], t.s), c[1], c[2]>> :
             c \in Range(RuleDef(productions[p]).rhsAssert)}
    ELSE {}

\* the degrees of the tokens of the production justifications of w, those that
\* are defined
JustifyingMus(st, w) ==
    LET js == JustificationsOf(st.justifications, w)
        all == [k \in DOMAIN js |->
                   IF js[k].kind = "prod" THEN TokenToMu(st, js[k].token)
                   ELSE Undefined]
    IN  FilterBy(all, [k \in DOMAIN all |-> all[k] # Undefined])

\* the disjunction of the degrees ms: their maximum under min-max, 1 minus the
\* product of the complements under multiplicative
Disjunction(sys, ms) ==
    IF sys = "min-max" THEN MaxOf(ms)
    ELSE MuUnit - ProductFrom([k \in DOMAIN ms |-> MuUnit - ms[k]], 1)

\* this firing step asserts w for one of its tokens to add, and finds it in
\* working memory as a FuzzyWME
AssertsExistingFuzzyWME(w) ==
    /\ FiringStep
    /\ \E t \in TokensToAdd(Cur, last'.item) : w \in RhsWMEs(last'.item, t)
    /\ IsFuzzyWME(BeforeAssertions(last'.item), w)

\* C21: when a firing asserts a WME that is in working memory as a FuzzyWME w,
\* the degree of w after the firing is the disjunction of the defined degrees
\* of the tokens of all production justifications of w: the maximum under
\* min-max, 1 minus the product of the complements under multiplicative.
C21_ExistingFuzzyWMEGetsDisjunction ==
    [][\A w \in wm :
          AssertsExistingFuzzyWME(w) =>
              /\ IsFuzzyWME(Cur', w)
              /\ JustifyingMus(Cur', w) # <<>>
              /\ MuOf(Cur', w) = Disjunction(fuzzySystem, JustifyingMus(Cur', w))]_vars


\* the degrees of the FuzzyWMEs of token t
FuzzyMembers(t) == FilterBy(t.fz, [i \in DOMAIN t.fz |-> t.fz[i] # Undefined])

\* the conjunction of the degrees ms: their minimum under min-max, their
\* product under multiplicative
Conjunction(sys, ms) == IF sys = "min-max" THEN MinOf(ms) ELSE ProductFrom(ms, 1)

\* of the tokens that production p is about to fire for, t alone yields w: the
\* firing adds w for t and asserts it for no other token
OnlyFor(p, t, w) == \A u \in TokensToAdd(Cur, p) \ {t} : w \notin RhsWMEs(p, u)

\* C22: the degree computed for a token is undefined if and only if the token
\* has no FuzzyWME, and is otherwise the conjunction of the degrees of its
\* FuzzyWMEs (minimum under min-max, product under multiplicative); a WME that
\* the firing adds for the token is added with this degree.
C22_TokenMuIsConjunction ==
    [][/\ \A p \in DOMAIN items : \A t \in items[p] :
              /\ TokenToMu(Cur, t) = Undefined <=> FuzzyMembers(t) = <<>>
              /\ FuzzyMembers(t) # <<>> =>
                     TokenToMu(Cur, t) = Conjunction(fuzzySystem, FuzzyMembers(t))
       /\ FiringStep =>
              \A t \in TokensToAdd(Cur, last'.item) :
                  \A w \in RhsWMEs(last'.item, t) \ Range(BeforeAssertions(last'.item).wm) :
                      OnlyFor(last'.item, t, w) =>
                          /\ w \in wm'
                          /\ IsFuzzyWME(Cur', w) => MuOf(Cur', w) = TokenToMu(Cur, t)]_vars


\* the degree of token t as amended: undefined when the token has no FuzzyWME
\* or no fuzzy system is selected, the conjunction otherwise
DegreeOf(t) ==
    IF FuzzyMembers(t) = <<>> \/ fuzzySystem = "" THEN Undefined
    ELSE Conjunction(fuzzySystem, FuzzyMembers(t))

\* C22, amended: the degree computed for a token is undefined if and only if
\* the token has no FuzzyWME or no fuzzy system is selected, and is otherwise
\* the conjunction of the degrees of its FuzzyWMEs (minimum under min-max,
\* product under multiplicative); a WME that the firing adds for the token is
\* added with this degree.
C22_TokenMuIsConjunctionUnderSystem ==
    [][/\ \A p \in DOMAIN items : \A t \in items[p] : TokenToMu(Cur, t) = DegreeOf(t)
       /\ FiringStep =>
              \A t \in TokensToAdd(Cur, last'.item) :
                  \A w \in RhsWMEs(last'.item, t) \ Range(BeforeAssertions(last'.item).wm) :
                      OnlyFor(last'.item, t, w) =>
                          /\ w \in wm'
                          /\ IsFuzzyWME(Cur', w) => MuOf(Cur', w) = DegreeOf(t)]_vars

\* a firing has added a WME for a token of two FuzzyWMEs of different degrees,
\* the first the greater: a FuzzyWME of the degree of the token
C22_Witness ==
    /\ last.what = "cycle" /\ last.outcome = "fired"
    /\ \E t \in fired[last.item] :
          /\ Len(FuzzyMembers(t)) = 2
          /\ FuzzyMembers(t)[1] > FuzzyMembers(t)[2]
          /\ \E w \in RhsWMEs(last.item, t) :
                /\ w \in wm
                /\ IsFuzzyWME(Cur, w)
                /\ MuOf(Cur, w) = DegreeOf(t)


\* the FuzzyWMEs (id, a, _) of working memory: the group of (id, a)
Group(id, a) == {w \in wm : w[1] = id /\ w[2] = a /\ IsFuzzyWME(Cur, w)}

\* c - ln(1/mu - 1)/a for the sigmoid (a, c) of the fuzzy value of the
\* FuzzyWME w of variable v, mu being the degree of w
CrispValueOf(v, w) ==
    LET d == v.fuzzyVariableKind.definitions[GetFuzzyValue(v, w[3])]
    IN  Inverse_sigmoid(d.a, d.c, MuOf(Cur, w))

\* the arithmetic mean of the values of the group G of variable v
MeanOf(v, G) ==
    LET ws == SetToSeq(G)
        sum == SumFrom([k \in DOMAIN ws |-> CrispValueOf(v, ws[k])], 1)
    IN  IF sum \in {NaN, PosInf, NegInf} THEN sum ELSE sum \div Cardinality(G)

\* working memory has the crisp WME of the group of (id, v), justified by the
\* defuzzification of this group
HasCrispWME(v, id) ==
    LET G == Group(id, v.name)
        w == <<id, v.name, NumberToString(MeanOf(v, G))>>
        js == JustificationsOf(justifications, w)
    IN  /\ w \in wm
        /\ ParseFloat(Cur, w) = MeanOf(v, G)
        /\ \E k \in DOMAIN js : js[k].kind = "defuzz" /\ Range(js[k].wmes) = G

\* the calls ev end with a defuzzification: runDefuzzification, the calls it
\* makes, and at most the call of run() after it
EndsWithDefuzzification(ev) ==
    \E k \in DOMAIN ev :
        /\ ev[k] = "runDefuzzification"
        /\ \A j \in (k + 1)..Len(ev) : ev[j] \in {"retractWMEandJustifications", "run"}

\* C23: after a defuzzification, for every registered fuzzy variable a and
\* every id with FuzzyWMEs (id, a, _), working memory has the crisp WME
\* (id, a, x) with x the arithmetic mean over the group of the values
\* c - ln(1/mu - 1)/a, and this WME holds a defuzzification justification
\* whose payload is the group.
C23_DefuzzifiedToMean ==
    EndsWithDefuzzification(events) =>
        \A i \in DOMAIN fuzzyVariables : \A id \in Ids :
            Group(id, fuzzyVariables[i].name) # {} =>
                HasCrispWME(fuzzyVariables[i], id)

\* the program state after construction, for the version that runs
Constructed ==
    [wm |-> <<>>, mu |-> {}, numeric |-> {}, fuzzySystem |-> "",
     fuzzyVariableKinds |-> <<>>, fuzzyVariables |-> <<>>, schemaCheck |-> FALSE,
     patternsForAttributes |-> <<>>, warnings |-> 0, halt |-> "", build |-> build,
     events |-> <<>>, items |-> <<>>, fired |-> <<>>, gen |-> <<>>,
     productions |-> <<>>, hasAssert |-> <<>>, strata |-> << <<>> >>,
     stratumBeingRead |-> 0, justifications |-> <<>>, currentStratum |-> 0]

\* the input file lines with its production clauses in the order f
PermuteProductions(lines, f) ==
    LET idx == SelectIdx([i \in DOMAIN lines |-> lines[i].t = "prod"], 1, Len(lines))
        rank(i) == CHOOSE k \in DOMAIN idx : idx[k] = i
    IN  [i \in DOMAIN lines |->
            IF lines[i].t = "prod" THEN lines[idx[f[rank(i)]]] ELSE lines[i]]

\* the working memory that the main program leaves for the input file lines
\* under first-match, with the degrees of its FuzzyWMEs
FinalWorkingMemory(lines) ==
    LET Left(st) == <<Range(st.wm), st.mu>>
    IN  Left(RunToEnd("firstMatch", LoadFile(Constructed, lines), 1))

\* the input files whose rules have no negation (and no aggregate)
WithoutNegation ==
    {p \in Programs : \A i \in DOMAIN Lines(p) :
        Lines(p)[i].t = "prod" => RuleDef(Lines(p)[i].rhs).neg = {}}

\* C24: for a ruleset without negation and aggregates, the first-match run
\* from the facts of the input file leaves the same final working memory for
\* every declaration order of the productions.
C24_FirstMatchConfluent ==
    (pc = "idle" /\ ncmds = 0 /\ strategyName = "firstMatch" /\ prog \in WithoutNegation) =>
        \A f \in Permutations(1..Len(productions)) :
            FinalWorkingMemory(PermuteProductions(Lines(prog), f)) = <<wm, mu>>


\* the strategies whose lower-cased name has the lower-cased list of characters
\* n as a prefix, by their place in the registry
Candidates(n) ==
    {i \in DOMAIN ConflictResolutionStrategies :
        LET name == ToLowerCase(NameChars(ConflictResolutionStrategies[i]))
        IN  Len(n) <= Len(name) /\ SubSeq(name, 1, Len(n)) = ToLowerCase(n)}

\* C25: the strategy selected for the name n is the first of the registry
\* (firstMatch, stratifiedManual) whose lower-cased name has the lower-cased n
\* as a prefix; firstMatch when no strategy matches or no name is given.
C25_StrategySelectedByPrefix ==
    strategyName =
        IF strategy = <<>> \/ Candidates(strategy) = {} THEN "firstMatch"
        ELSE ConflictResolutionStrategies[
                 CHOOSE i \in Candidates(strategy) : \A j \in Candidates(strategy) : i <= j]

\* a program has run under the strategy selected for a name in capitals that
\* is a prefix of the second name of the registry only
C25_Witness ==
    /\ pc = "idle"
    /\ strategy # <<>> /\ strategy # ToLowerCase(strategy)
    /\ Candidates(strategy) = {2}
    /\ strategyName = "stratifiedManual"
    /\ currentStratum > 0


\* the calls by which a firing removes: the withdrawal of a token, the removal
\* of a WME left without justification, the pruning of the empty records
Removals(ev) == Calls(ev, "withdraw") \cup Calls(ev, "removeWME") \cup Calls(ev, "prune")

\* C26: in a cycle, the withdrawals for the tokens to remove of the fired
\* production, the WME removals they cause and the pruning of the empty records
\* are all made before the first RHS assertion; the deltas applied are those of
\* one willFire call, on the selected production only.
C26_RemovalsBeforeAssertions ==
    [][FiringStep =>
         LET p == last'.item
         IN  /\ \A i \in Removals(events') :
                    \A j \in Calls(events', "addWMEsFromConditions") : i < j
             /\ Calls(events', "willFire") = {1}
             /\ Cardinality(Calls(events', "withdraw")) = Cardinality(TokensToRemove(Cur, p))
             /\ Cardinality(Calls(events', "prune")) = 1
             /\ Cardinality(Calls(events', "addWMEsFromConditions")) =
                    IF hasAssert[p] THEN Cardinality(TokensToAdd(Cur, p)) ELSE 0
             /\ fired'[p] = items[p]
             /\ \A q \in DOMAIN productions : q # p => fired'[q] = fired[q]]_vars

\* a firing has withdrawn a token, removed a WME and asserted its RHS for a
\* token to add, while another production had a pending delta
C26_Witness ==
    /\ last.what = "cycle" /\ last.outcome = "fired"
    /\ Calls(events, "withdraw") # {}
    /\ Calls(events, "removeWME") # {}
    /\ Calls(events, "addWMEsFromConditions") # {}
    /\ \E q \in WithPending : q # last.item

\* this step is a `retract` command that retractWMEandJustifications accepts
RetractStep == pc = "idle" /\ last'.what = "retract" /\ last'.outcome = "ok"

\* this step is the end of the run() that the handler `who` called: the loop of
\* run() is left, or the resolver throws
EndOfRun(who) == pc = "running" /\ pc' = "idle" /\ caller = who

\* the calls this step makes once the loop of run() is left
CallsAfterRun == SubSeq(events', Len(RunBody(strategyName, Cur).st.events) + 1,
                        Len(events'))

\* C27: a successful `retract ID ATTR VAL` removes exactly one axiomatic or
\* defuzzification justification of the WME, removes the WME and its record if
\* and only if no justification remains, and then performs, in this order,
\* defuzzification, run() and defuzzification before the next command is read.
C27_RetractDefuzzifiesRunsDefuzzifies ==
    [][/\ RetractStep =>
            LET w == last'.subject
                held == JustificationsOf(justifications, w)
                st == RetractWMEandJustifications(Cur, w).st
                left == JustificationsOf(st.justifications, w)
            IN  /\ \E k \in DOMAIN held :
                       /\ held[k].kind \in {"axiomatic", "defuzz"}
                       /\ left = RemoveAt(held, k)
                /\ (left = <<>>) <=> (~InWM(st, w) /\ ~HasRecord(st.justifications, w))
                /\ (left # <<>>) <=> (InWM(st, w) /\ HasRecord(st.justifications, w))
                /\ events'[1] = "retractWMEandJustifications"
                /\ Len(events') >= 3
                /\ events'[2] = "runDefuzzification"
                /\ Calls(events', "run") = {Len(events')}
       /\ EndOfRun("retract") =>
            /\ ~threw'
            /\ CallsAfterRun # <<>>
            /\ CallsAfterRun[1] = "runDefuzzification"]_vars

\* C28: after every interactive mutation of working memory, a `retract` or a
\* `run <clauses>` (one whose clauses only assert facts and fire no rule
\* included), defuzzification is executed before the next prompt.
C28_DefuzzifiedBeforeNextPrompt ==
    pc = "idle" /\ caller \in {"retract", "run"} => defuzzified

\* the calls this step makes in the loop body of run()
CallsOfBody == SubSeq(events', 1, Len(RunBody(strategyName, Cur).st.events))

\* C29: in every cycle in which a production with an RHS pattern fires,
\* defuzzification is executed exactly once, after the RHS assertions for all
\* the tokens to add of the firing, whatever the number of tokens to add
\* (zero, one or several).
C29_DefuzzifiedOncePerFiring ==
    [][FiringStep /\ hasAssert[last'.item] =>
         /\ Cardinality(Calls(CallsOfBody, "runDefuzzification")) = 1
         /\ \A k \in Calls(CallsOfBody, "runDefuzzification") :
                \A j \in Calls(CallsOfBody, "addWMEsFromConditions") : j < k]_vars

\* the crisp values of the fuzzy variables in working memory, the WME that a
\* `retract` command of this step names left aside
CrispValuesKept ==
    {w \in wm : ByDefuzzification(w) /\ ~(last'.what = "retract" /\ last'.subject = w)}

\* C30: when defuzzification replaces the single crisp WME of an (id, attr)
\* whose value differs from the new crisp value, it discards only a
\* defuzzification justification of that WME: an axiomatic justification of
\* the crisp WME is never removed by defuzzification, and the WME is removed
\* only if no justification remains.
C30_DefuzzificationKeepsAxiomatic ==
    [][\A w \in CrispValuesKept :
          /\ NumAxiomatic(justifications', w) >= NumAxiomatic(justifications, w)
          /\ HoldsAxiomatic(justifications, w) => w \in wm'
          /\ w \notin wm' => ~HasRecord(justifications', w)]_vars

\* C31: in every reachable state the degree of every FuzzyWME lies in [0, 1];
\* in particular the propagation of degrees on a FuzzyWME none of whose
\* production justifications has a token with a defined degree (the empty
\* disjunction) leaves its degree in [0, 1], under both fuzzy systems.
C31_DegreesInUnitInterval ==
    \A e \in mu : e.mu >= 0 /\ e.mu <= MuUnit

RECURSIVE InSourceOrderFrom(_, _, _)
\* the lines read with every effect applied in source order: the clauses
\* accumulated before a directive are parsed and executed, then the directive
\* is executed
InSourceOrderFrom(acc, lines, i) ==
    LET Flushed(st) == IF acc.clauses # <<>> THEN ParseAndExecute(st, acc.clauses) ELSE st
        Directed(st, dir) == IF Halted(st) THEN st ELSE ExecuteDirective(st, dir)
    IN  IF Halted(acc.st) THEN acc.st
        ELSE IF i > Len(lines) THEN Flushed(acc.st)
        ELSE IF lines[i].t = "dir"
        THEN InSourceOrderFrom([st |-> Directed(Flushed(acc.st), lines[i]),
                                clauses |-> <<>>], lines, i + 1)
        ELSE InSourceOrderFrom([acc EXCEPT !.clauses = Append(@, lines[i])], lines, i + 1)

InSourceOrder(lines) == InSourceOrderFrom([st |-> Constructed, clauses |-> <<>>], lines, 1)

\* C32: the effects of the load are applied in source order: the batch of
\* clauses that precedes a directive is parsed and executed before the
\* directive takes effect (asserts written before `#schemacheck on` are not
\* checked, productions written before `#stratum` are compiled before the
\* cursor of the stratum being read is incremented).
C32_LoadInSourceOrder ==
    last.what = "load" =>
        LET st == InSourceOrder(Lines(prog))
        IN  /\ last.outcome = st.halt
            /\ working_memory = st.wm
            /\ justifications = st.justifications
            /\ productions = st.productions
            /\ strata = st.strata
            /\ stratumBeingRead = st.stratumBeingRead
            /\ schemaCheck = st.schemaCheck
            /\ fuzzyVariables = st.fuzzyVariables
            /\ warnings = st.warnings

NoRepeat(seq) == \A i, j \in DOMAIN seq : i # j => seq[i] # seq[j]

\* the line opens the expansion of its WME: the line of a justification
Expands(l) == l.text \notin {"(*)", "wme", "RangeError", "[Fuzzification of:]"}

CallsStratifiedManual ==
    /\ pc = "running" /\ last'.what = "cycle"
    /\ strategyName = "stratifiedManual"
    /\ FindConflictSet(Cur) # <<>>

\* C34: on every call of the stratified-manual resolver, in any sequence of
\* runs, the stratum it reads is an existing one (0 <= cursor < K); when the
\* cursor has already reached K the resolver returns none without reading
\* strata[K].
C34_ResolverReadsExistingStratum ==
    [][CallsStratifiedManual =>
          /\ last'.outcome # "threw"
          /\ ~threw'
          /\ currentStratum >= Len(strata) => last'.outcome = "none"]_vars

\* C35: every invocation of run() has the full budget of MAX_CYCLES cycles,
\* whatever the number of cycles consumed by the earlier runs of the process: a
\* run is stopped by the limit only when it has executed MAX_CYCLES cycles.
C35_EveryRunHasFullBudget ==
    (pc = "idle" /\ last.what = "cycle" /\ last.outcome = "fired") =>
        bodies >= MAX_CYCLES

\* the run has stopped with an empty conflict set
StoppedEmpty == pc = "idle" /\ last.what = "cycle" /\ last.outcome = "empty"

\* C36: when a first-match run stops with an empty conflict set (also after an
\* interactive retract), for every production r with an RHS and every token t
\* currently matched by r, each WME that the RHS of r yields under the bindings
\* of t is in working memory and its record holds the justification (r, t).
C36_MatchedTokensAreAsserted ==
    (StoppedEmpty /\ strategyName = "firstMatch") =>
        \A p \in DOMAIN productions : \A t \in items[p] : \A w \in RhsWMEs(p, t) :
            /\ w \in wm
            /\ \E k \in DOMAIN JustificationsOf(justifications, w) :
                  JustificationsOf(justifications, w)[k] =
                      ProductionJustification(productions[p], t)

\* C37: when a run stops with an empty conflict set, every production-derived
\* justification (r, t) in the justification store refers to a token t that r
\* currently matches: no WME is kept by a token the matcher has withdrawn.
C37_NoJustificationOfWithdrawnToken ==
    StoppedEmpty =>
        \A i \in DOMAIN justifications :
            \A k \in DOMAIN justifications[i].justifications :
                LET jj == justifications[i].justifications[k]
                IN  jj.kind = "prod" =>
                        \E p \in DOMAIN productions :
                            productions[p] = jj.prod /\ jj.token \in items[p]

\* a run started by a retract has withdrawn tokens and stopped, and the store
\* still holds production-derived justifications
C37_Witness ==
    /\ StoppedEmpty /\ caller = "retract"
    /\ \E c \in gone : c[1] = "withdrawal"
    /\ \E i \in DOMAIN justifications : \E k \in DOMAIN justifications[i].justifications :
           justifications[i].justifications[k].kind = "prod"

\* C38: at the end of every cycle, every FuzzyWME w that holds at least one
\* production-derived justification whose token has a defined degree has the
\* degree that is the disjunction of the degrees of the tokens of its current
\* production-derived justifications, also after one of its justifications has
\* been withdrawn.
C38_DegreeIsDisjunctionOfJustifications ==
    (last.what = "cycle" /\ last.outcome = "fired") =>
        \A w \in wm :
            (IsFuzzyWME(Cur, w) /\ JustifyingMus(Cur, w) # <<>>) =>
                MuOf(Cur, w) = Disjunction(fuzzySystem, JustifyingMus(Cur, w))

\* C39: after every execution of defuzzification, for every registered fuzzy
\* variable a and every id that has FuzzyWMEs of attribute a, working memory
\* holds exactly one crisp numeric WME (id, a, n): a previous crisp WME of
\* another value does not survive next to the new one.
C39_OneCrispValuePerGroup ==
    EndsWithDefuzzification(events) =>
        \A k \in DOMAIN fuzzyVariables : \A id \in Ids :
            Group(id, fuzzyVariables[k].name) # {} =>
                Len(CrispWMEs(Cur, id, fuzzyVariables[k].name)) = 1

=============================================================================
